---------------------------- MODULE Spec2Model ----------------------------
(***************************************************************************)
(* A model of the deserializer of basic-toml (src/src/de.rs): the document *)
(* flattener (Deserializer::tables, add_dotted_key), the index builder     *)
(* (build_table_indices, build_table_pindices), the hierarchical traversal *)
(* (MapVisitor as MapAccess and SeqAccess), the value bridge               *)
(* (ValueDeserializer, InlineTableDeserializer), the number parser         *)
(* (number, integer, parse_integer) and the error model.                   *)
(*                                                                         *)
(* The lexer (src/tokens.rs) is not part of the sources: a document is a   *)
(* sequence of logical lines, and the byte offsets the lexer would report  *)
(* are computed from a canonical rendering of each line (LineLen, KeyAt).  *)
(***************************************************************************)
EXTENDS Integers, Sequences, FiniteSets, TLC

VARIABLES
    pc,         \* "parse" | "traverse" | "done" | "idle"
    input,      \* the document read so far: the byte length of each line
    script,     \* the lines still to be read when the document is scripted
    tables,     \* Deserializer::tables: the fragments pushed so far
    cur_table,  \* Deserializer::tables: the fragment being filled
    doc,        \* the fragment list as the flattener returned it
    stack,      \* the MapVisitor frames, outermost first
    reached,    \* the fragments the traversal has selected as `pos` so far
    result,     \* what the consumer built, once the traversal returned Ok
    err,        \* the error that surfaced, or NoError
    num,        \* the literal of a document that is given by its characters
    consumer,   \* the integers the consumer refuses to take (another type expected)
    rendered    \* the text of the error, once the caller asked for it (to_string)

vars == <<pc, input, script, tables, cur_table, doc, stack, reached, result, err, num, consumer, rendered>>

(***************************************************************************)
(* Bounds of the model.                                                    *)
(***************************************************************************)
MaxLines == 4

Keys == {"a", "b"}

\* the header paths and the dotted keys a document is written with
HeaderPaths == {<<"a">>, <<"b">>, <<"a", "a">>, <<"a", "b">>}
KeyPaths == {<<"a">>, <<"b">>, <<"a", "b">>}

(***************************************************************************)
(* Option<T>.                                                              *)
(***************************************************************************)
None == [some |-> FALSE]
Some(x) == [some |-> TRUE, v |-> x]

Max(a, b) == IF a >= b THEN a ELSE b

RECURSIVE SumLen(_)
SumLen(s) == IF s = <<>> THEN 0 ELSE Len(Head(s)) + SumLen(Tail(s))

RECURSIVE Join(_)
\* the segments of a key path joined by "."
Join(s) ==
    IF s = <<>> THEN ""
    ELSE IF Len(s) = 1 THEN s[1]
    ELSE s[1] \o "." \o Join(Tail(s))

(***************************************************************************)
(* The error model: struct Error and its methods.                          *)
(***************************************************************************)
NoError == [kind |-> "none"]

from_kind(at, kind, name) ==
    [kind |-> kind, name |-> name, line |-> None, col |-> 0, at |-> at,
     key |-> <<>>]

\* Error::custom: an error of the consumer (serde), without an offset
custom(at, msg) == from_kind(at, "Custom", msg)

add_key_context(e, key) == [e EXCEPT !.key = <<key>> \o e.key]

\* the offset assigned whether or not the error already carries one
fix_offset_always(e, f) == [e EXCEPT !.at = f]

\* Error::fix_offset: only an error without an offset is given one
fix_offset(e, f) == IF ~e.at.some THEN [e EXCEPT !.at = f] ELSE e

RECURSIVE LineColFrom_newline_excluded(_, _, _, _)
\* the loop of to_linecol with the newline not counted into its line
LineColFrom_newline_excluded(lens, offset, i, cur) ==
    IF i >= Len(lens) THEN <<Len(lens), 0>>
    ELSE IF cur + lens[i + 1] > offset THEN <<i, offset - cur>>
    ELSE LineColFrom_newline_excluded(lens, offset, i + 1, cur + lens[i + 1] + 1)

RECURSIVE LineColFrom(_, _, _, _)
\* the loop of to_linecol over the lines of the input, from line i (0-based)
LineColFrom(lens, offset, i, cur) ==
    IF i >= Len(lens) THEN <<Len(lens), 0>>
    ELSE IF cur + lens[i + 1] + 1 > offset THEN <<i, offset - cur>>
    ELSE LineColFrom(lens, offset, i + 1, cur + lens[i + 1] + 1)

to_linecol(lens, offset) == LineColFrom(lens, offset, 0, 0)

fix_linecol(e, lens) ==
    IF e.at.some
    THEN LET lc == to_linecol(lens, e.at.v)
         IN [e EXCEPT !.line = Some(lc[1]), !.col = lc[2]]
    ELSE e

\* the error made without its line and column
error_unresolved(lens, at, kind, name) == from_kind(Some(at), kind, name)

\* Deserializer::error
error(lens, at, kind, name) == fix_linecol(from_kind(Some(at), kind, name), lens)

(***************************************************************************)
(* The rendering of a line, standing for the lexer: `[a.b]`, `[[a.b]]`,    *)
(* `a.b = 1`, `a = {b = 1, c = 2}`, each after `indent` spaces.            *)
(***************************************************************************)
RECURSIVE InputLen(_)
\* the byte offset just after the lines read so far
InputLen(lens) == IF lens = <<>> THEN 0 ELSE Head(lens) + 1 + InputLen(Tail(lens))

\* the rendered length of a dotted key path
PathLen(p) == SumLen(p) + Len(p) - 1

\* the byte offset of segment i of a dotted key path that starts at `at`
KeyAt(p, i, at) == at + SumLen(SubSeq(p, 1, i - 1)) + (i - 1)

\* the (Span, Cow<str>) list of a dotted key path that starts at `at`
KeyParts(p, at) == [i \in 1..Len(p) |-> [start |-> KeyAt(p, i, at), key |-> p[i]]]

RECURSIVE LitLen(_)
RECURSIVE LitPairsLen(_)
\* the rendered length of a value literal
LitLen(lit) ==
    CASE lit.e = "Integer" -> 1
      [] lit.e = "String" -> Len(lit.s) + 2
      [] lit.e = "Number" -> Len(lit.s) + (IF lit.plus THEN 1 ELSE 0)
      [] lit.e = "InlineTable" -> 2 + LitPairsLen(lit.pairs)
      [] lit.e = "Array" -> 2 + LitPairsLen(lit.pairs)
LitPairsLen(ps) ==
    IF ps = <<>> THEN 0
    ELSE (IF Head(ps).key = <<>> THEN 0 ELSE PathLen(Head(ps).key) + 3)
         + LitLen(Head(ps).val)
         + (IF Len(ps) > 1 THEN 2 ELSE 0) + LitPairsLen(Tail(ps))

LineLen(line) ==
    CASE line.kind = "blank" -> line.indent
      [] line.kind = "table" ->
            line.indent + PathLen(line.header) + (IF line.array THEN 4 ELSE 2)
      [] line.kind = "kv" ->
            line.indent + PathLen(line.key) + 3 + LitLen(line.val)

(***************************************************************************)
(* Deserializer::add_dotted_key.  A pair is ((Span, key), Value); a Value  *)
(* is its variant e, its payload and its start offset.                     *)
(***************************************************************************)
Ok(v) == [ok |-> TRUE, v |-> v]
Err(e) == [ok |-> FALSE, e |-> e]

\* the find comparing the whole (Span, key) pair, which no entry satisfies
FindKeyWithSpan(values, key) == 0

\* values.iter_mut().rev().find(..): the last index with the key, or 0
FindLastKey(values, key) ==
    IF \E i \in 1..Len(values) : values[i].key = key
    THEN CHOOSE i \in 1..Len(values) :
            /\ values[i].key = key
            /\ \A j \in (i + 1)..Len(values) : values[j].key # key
    ELSE 0

\* values.iter_mut().find(|(k, _)| k.1 == key.1): the first index, or 0
FindKey(values, key) ==
    IF \E i \in 1..Len(values) : values[i].key = key
    THEN CHOOSE i \in 1..Len(values) :
            /\ values[i].key = key
            /\ \A j \in 1..(i - 1) : values[j].key # key
    ELSE 0

\* the result of add_dotted_key, with the pair list as the call leaves it
Left(r, values) == [ok |-> r.ok, v |-> values, e |-> r.e]

RECURSIVE add_dotted_key(_, _, _, _)
\* `values` is a &mut Vec: the list is returned as the call leaves it (v),
\* on success and on error alike
add_dotted_key(lens, key_parts, value, values) ==
    LET key == Head(key_parts)
        rest == Tail(key_parts)
        idx == FindKey(values, key.key)
    IN  IF rest = <<>>
        THEN [ok |-> TRUE, e |-> NoError,
              v |-> Append(values, [span |-> key.start, key |-> key.key, value |-> value])]
        ELSE IF idx # 0
        THEN IF values[idx].value.e = "DottedTable"
             THEN LET r == add_dotted_key(lens, rest, value, values[idx].value.pairs)
                  IN Left(r, [values EXCEPT ![idx].value.pairs = r.v])
             ELSE [ok |-> FALSE, v |-> values,
                   e |-> error(lens, values[idx].value.start, "DottedKeyInvalidType", "")]
        ELSE LET r == add_dotted_key(lens, rest, value, <<>>)
             IN Left(r, Append(values,
                        [span |-> key.start, key |-> key.key,
                         value |-> [e |-> "DottedTable", pairs |-> r.v,
                                    start |-> value.start]]))

(***************************************************************************)
(* The number parser on a Keylike token, a sequence of one-character       *)
(* strings that starts at byte `start` of the input.  The literals of the  *)
(* model hold no `e`, `E` or `.` and are not inf or nan, so the float      *)
(* branches of number are never entered.                                   *)
(***************************************************************************)
DigitChars == <<"0", "1", "2", "3", "4", "5", "6", "7", "8", "9",
                "a", "b", "c", "d", "e", "f">>
UpperChars == <<"A", "B", "C", "D", "E", "F">>

\* char::to_digit(radix): the digit a character stands for, or None
to_digit(c, radix) ==
    LET lower == {n \in 1..Len(DigitChars) : DigitChars[n] = c /\ n - 1 < radix}
        upper == {n \in 1..Len(UpperChars) : UpperChars[n] = c /\ n + 9 < radix}
    IN IF lower # {} THEN Some((CHOOSE n \in lower : TRUE) - 1)
       ELSE IF upper # {} THEN Some((CHOOSE n \in upper : TRUE) + 9)
       ELSE None

is_digit(c, radix) == to_digit(c, radix).some

\* the leading-zero test made in every radix
leading_zero_any_radix(first, first_zero, allow_leading_zeros) ==
    ~first /\ first_zero

\* the leading-zero test with allow_leading_zeros taken the wrong way round
leading_zero_when_allowed(first, first_zero, allow_leading_zeros) ==
    ~first /\ first_zero /\ allow_leading_zeros

\* parse_integer: a digit after a first `0` where leading zeros are refused
leading_zero(first, first_zero, allow_leading_zeros) ==
    ~first /\ first_zero /\ ~allow_leading_zeros

\* the test after the loop without its underscore half
no_digit(first, underscore) == first

\* parse_integer, after the loop: no character was taken, or the last one
\* taken was an underscore
no_digit_or_open_underscore(first, underscore) == first \/ underscore

\* parse_integer without its test of an underscore in first place
leading_underscore_accepted(c, first) == FALSE

\* parse_integer: an underscore before any digit
leading_underscore(c, first) == c = "_" /\ first

\* the body of the for loop of parse_integer on the character c at index i,
\* with the flags in st: the flags for the next character ("next"), the
\* break ("break") or the error return ("err")
parse_integer_step(c, i, allow_sign, allow_leading_zeros, radix, st) ==
    IF i = 0 /\ c \in {"+", "-"} /\ allow_sign THEN [k |-> "next", st |-> st]
    ELSE IF c = "0" /\ st.first
    THEN [k |-> "next", st |-> [st EXCEPT !.first = FALSE, !.first_zero = TRUE]]
    ELSE IF is_digit(c, radix)
    THEN IF leading_zero(st.first, st.first_zero, allow_leading_zeros)
         THEN [k |-> "err"]
         ELSE [k |-> "next", st |-> [st EXCEPT !.first = FALSE, !.underscore = FALSE]]
    ELSE IF leading_underscore(c, st.first) THEN [k |-> "err"]
    ELSE IF c = "_" /\ ~st.underscore
    THEN [k |-> "next", st |-> [st EXCEPT !.first = FALSE, !.underscore = TRUE]]
    ELSE [k |-> "break"]

RECURSIVE parse_integer_loop(_, _, _, _, _, _, _, _)
\* the for loop of parse_integer from char index i on, and what follows
\* it; the result is (prefix, suffix) or the error
parse_integer_loop(lens, s, start, allow_sign, allow_leading_zeros, radix, i, st) ==
    LET step == IF i = Len(s) THEN [k |-> "break"]
                ELSE parse_integer_step(s[i + 1], i, allow_sign,
                                        allow_leading_zeros, radix, st)
    IN IF step.k = "next"
       THEN parse_integer_loop(lens, s, start, allow_sign, allow_leading_zeros,
                               radix, i + 1, step.st)
       ELSE IF step.k = "err" THEN Err(error(lens, i + start, "NumberInvalid", ""))
       ELSE IF no_digit_or_open_underscore(st.first, st.underscore)
       THEN Err(error(lens, start, "NumberInvalid", ""))
       ELSE Ok([prefix |-> SubSeq(s, 1, i), suffix |-> SubSeq(s, i + 1, Len(s))])

parse_integer(lens, s, start, allow_sign, allow_leading_zeros, radix) ==
    parse_integer_loop(lens, s, start, allow_sign, allow_leading_zeros, radix, 0,
                       [first |-> TRUE, first_zero |-> FALSE, underscore |-> FALSE])

\* str::replace('_', "")
RECURSIVE replace_underscores(_)
replace_underscores(s) ==
    IF s = <<>> THEN <<>>
    ELSE (IF Head(s) = "_" THEN <<>> ELSE <<Head(s)>>) \o replace_underscores(Tail(s))

\* str::trim_start_matches('+')
RECURSIVE trim_start_plus(_)
trim_start_plus(s) ==
    IF s # <<>> /\ Head(s) = "+" THEN trim_start_plus(Tail(s)) ELSE s

(***************************************************************************)
(* i64 arithmetic.  The integers of the checker are narrower than 64 bits, *)
(* so the magnitude that from_str_radix accumulates is kept in four limbs  *)
(* of 16 bits, least significant first, and the checked_mul and            *)
(* checked_add (checked_sub for a negative literal) of the code are made   *)
(* on the limbs.  An i64 that fits 31 bits is written as an integer, a     *)
(* wider one as its sign and limbs.                                        *)
(***************************************************************************)
Limb == 65536

Zero64 == <<0, 0, 0, 0>>

\* m * radix + d on the limbs, with what is carried out of the last limb
mul_add(m, radix, d) ==
    LET c1 == m[1] * radix + d
        c2 == m[2] * radix + c1 \div Limb
        c3 == m[3] * radix + c2 \div Limb
        c4 == m[4] * radix + c3 \div Limb
    IN [limbs |-> <<c1 % Limb, c2 % Limb, c3 % Limb, c4 % Limb>>,
        carry |-> c4 \div Limb]

\* the range test of an unsigned 64-bit integer
in_u64(negative, r) == r.carry = 0

\* the checked operations succeed: the magnitude is at most i64::MAX, or
\* it is that of i64::MIN under a minus sign
in_i64(negative, r) ==
    /\ r.carry = 0
    /\ \/ r.limbs[4] < Limb \div 2
       \/ negative /\ r.limbs = <<0, 0, 0, Limb \div 2>>

\* the i64 of a sign and a magnitude
to_i64(negative, m) ==
    IF m[4] = 0 /\ m[3] = 0 /\ m[2] < Limb \div 4
    THEN LET v == m[2] * Limb + m[1] IN IF negative THEN 0 - v ELSE v
    ELSE [negative |-> negative, limbs |-> m]

\* the digits of i64::from_str_radix, most significant first, onto acc;
\* None for a character that is no digit (InvalidDigit) and for a result
\* out of range (PosOverflow, NegOverflow)
RECURSIVE radix_digits(_, _, _, _)
radix_digits(s, radix, negative, acc) ==
    IF s = <<>> THEN Some(to_i64(negative, acc))
    ELSE LET d == to_digit(Head(s), radix)
         IN IF ~d.some THEN None
            ELSE LET r == mul_add(acc, radix, d.v)
                 IN IF ~in_i64(negative, r) THEN None
                    ELSE radix_digits(Tail(s), radix, negative, r.limbs)

\* i64::from_str_radix
from_str_radix(src, radix) ==
    IF src = <<>> THEN None
    ELSE LET signed == Head(src) \in {"+", "-"}
             digits == IF signed THEN Tail(src) ELSE src
         IN IF digits = <<>> THEN None
            ELSE radix_digits(digits, radix, Head(src) = "-", Zero64)

\* Deserializer::integer
integer(lens, s, start, radix) ==
    LET allow_sign == radix = 10
        allow_leading_zeros == radix # 10
        r == parse_integer(lens, s, start, allow_sign, allow_leading_zeros, radix)
    IN IF ~r.ok THEN r
       ELSE IF r.v.suffix # <<>> THEN Err(error(lens, start, "NumberInvalid", ""))
       ELSE LET n == from_str_radix(trim_start_plus(replace_underscores(r.v.prefix)),
                                    radix)
            IN IF n.some THEN Ok(n.v)
               ELSE Err(error(lens, start, "NumberInvalid", ""))

\* s.strip_prefix(p) for a prefix of two characters
strip_prefix(s, p) ==
    IF Len(s) >= 2 /\ SubSeq(s, 1, 2) = p THEN Some(SubSeq(s, 3, Len(s))) ELSE None

\* Deserializer::number on the token s that starts at byte `start`, for a
\* value whose span starts at byte `from` (the `+` of a literal with one):
\* the first of the prefixes 0x, 0o, 0b that the token has picks the radix
\* and is stripped, a token with none is read in base 10
number(lens, from, s, start) ==
    LET hex == strip_prefix(s, <<"0", "x">>)
        oct == strip_prefix(s, <<"0", "o">>)
        bin == strip_prefix(s, <<"0", "b">>)
        a == IF hex.some THEN [s |-> hex.v, start |-> start + 2, radix |-> 16]
             ELSE IF oct.some THEN [s |-> oct.v, start |-> start + 2, radix |-> 8]
             ELSE IF bin.some THEN [s |-> bin.v, start |-> start + 2, radix |-> 2]
             ELSE [s |-> s, start |-> start, radix |-> 10]
        r == integer(lens, a.s, a.start, a.radix)
    IN IF r.ok THEN Ok([e |-> "Integer", i |-> r.v, start |-> from]) ELSE r

\* Deserializer::parse_keylike
parse_keylike(lens, at, s) ==
    IF Head(s) = "-" \/ is_digit(Head(s), 10) THEN number(lens, at, s, at)
    ELSE Err(error(lens, at, "UnquotedString", ""))

\* Deserializer::number_leading_plus: the Keylike token after the `+`
number_leading_plus(lens, at, s) == number(lens, at, s, at + 1)

(***************************************************************************)
(* Deserializer::value, inline_table and array on a value literal that     *)
(* starts at byte `at`: the Value, or the error of its first bad pair.     *)
(***************************************************************************)
RECURSIVE value(_, _, _)
RECURSIVE inline_table(_, _, _, _)
RECURSIVE array(_, _, _, _)
value(lens, lit, at) ==
    CASE lit.e = "Integer" -> Ok([e |-> "Integer", i |-> lit.i, start |-> at])
      [] lit.e = "String" -> Ok([e |-> "String", s |-> lit.s, start |-> at])
      [] lit.e = "Number" ->
            IF lit.plus THEN number_leading_plus(lens, at, lit.s)
            ELSE parse_keylike(lens, at, lit.s)
      [] lit.e = "InlineTable" ->
            LET r == inline_table(lens, lit.pairs, at + 1, <<>>)
            IN IF r.ok THEN Ok([e |-> "InlineTable", pairs |-> r.v, start |-> at])
               ELSE r
      [] lit.e = "Array" ->
            LET r == array(lens, lit.pairs, at + 1, <<>>)
            IN IF r.ok THEN Ok([e |-> "Array", elems |-> r.v, start |-> at])
               ELSE r
inline_table(lens, ps, at, ret) ==
    IF ps = <<>> THEN Ok(ret)
    ELSE LET p == Head(ps)
             vat == at + PathLen(p.key) + 3
             v == value(lens, p.val, vat)
         IN IF ~v.ok THEN v
            ELSE LET r == add_dotted_key(lens, KeyParts(p.key, at), v.v, ret)
                 IN IF ~r.ok THEN Err(r.e)
                    ELSE inline_table(lens, Tail(ps), vat + LitLen(p.val) + 2, r.v)
array(lens, ps, at, ret) ==
    IF ps = <<>> THEN Ok(ret)
    ELSE LET v == value(lens, Head(ps).val, at)
         IN IF ~v.ok THEN v
            ELSE array(lens, Tail(ps), at + LitLen(Head(ps).val) + 2, Append(ret, v.v))

(***************************************************************************)
(* Deserializer::tables: one action per line read.                         *)
(***************************************************************************)
EmptyTable == [at |-> 0, header |-> <<>>, values |-> None, array |-> FALSE]

\* the fragment list with cur_table pushed when it is not trivial
PushCur(ts, t) == IF t.header # <<>> \/ t.values.some THEN Append(ts, t) ELSE ts


\* the lines a document is drawn from: headers and key/value assignments
\* whose integer literal is the number of the line it stands on
HeaderLines ==
    {[kind |-> "table", indent |-> 0, array |-> a, header |-> h] :
        a \in BOOLEAN, h \in HeaderPaths}

KeyValueLines(n) ==
    LET int == [e |-> "Integer", i |-> n]
    IN {[kind |-> "kv", indent |-> 0, key |-> k, val |-> int] :
            k \in KeyPaths}
       \cup {[kind |-> "kv", indent |-> 0, key |-> <<"a">>,
              val |-> [e |-> "InlineTable",
                       pairs |-> <<[key |-> <<"b">>, val |-> int],
                                   [key |-> <<"b">>, val |-> int]>>]]}

\* Line::Table: close the fragment being filled, open the new one
TableLine(line) ==
    /\ pc = "parse"
    /\ line.kind = "table"
    /\ LET at == InputLen(input) + line.indent
           hat == at + (IF line.array THEN 2 ELSE 1)
       IN /\ tables' = PushCur(tables, cur_table)
          /\ cur_table' = [at |-> at, header |-> KeyParts(line.header, hat),
                           values |-> Some(<<>>), array |-> line.array]
    /\ input' = Append(input, LineLen(line))
    /\ UNCHANGED <<pc, doc, stack, reached, result, err, num, consumer, rendered>>

\* Line::KeyValue: merge the assignment into the fragment being filled
KeyValueLine(line) ==
    /\ pc = "parse"
    /\ line.kind = "kv"
    /\ LET at == InputLen(input) + line.indent
           lens == Append(input, LineLen(line))
           v == value(lens, line.val, at + PathLen(line.key) + 3)
           vals == IF cur_table.values.some THEN cur_table.values.v ELSE <<>>
           r == add_dotted_key(lens, KeyParts(line.key, at), v.v, vals)
       IN /\ input' = lens
          /\ IF ~v.ok
             THEN /\ pc' = "done"
                  /\ err' = v.e
                  /\ UNCHANGED cur_table
             ELSE /\ cur_table' = [cur_table EXCEPT !.values = Some(r.v)]
                  /\ IF r.ok THEN UNCHANGED <<pc, err>>
                     ELSE pc' = "done" /\ err' = r.e
    /\ UNCHANGED <<tables, doc, stack, reached, result, num, consumer, rendered>>

\* a line of whitespace only: Deserializer::line skips it
BlankLine(line) ==
    /\ pc = "parse"
    /\ line.kind = "blank"
    /\ input' = Append(input, LineLen(line))
    /\ UNCHANGED <<pc, tables, cur_table, doc, stack, reached, result, err, num, consumer, rendered>>

(***************************************************************************)
(* The index builder.  Fragments are numbered from 0 as in the code.       *)
(***************************************************************************)
Tbl(ts, i) == ts[i + 1]

\* table.header.iter().map(|v| v.1.clone()).collect()
HeaderKeys(t) == [i \in 1..Len(t.header) |-> t.header[i].key]

Prefix(h, n) == SubSeq(h, 1, n)

RECURSIVE Ascending(_)
\* the indices of a set in ascending order: the order the builders push them
Ascending(S) ==
    IF S = {} THEN <<>>
    ELSE LET m == CHOOSE x \in S : \A y \in S : x <= y
         IN <<m>> \o Ascending(S \ {m})

\* build_table_indices(tables).get(header)
build_table_indices(ts, header) ==
    LET S == {i \in 0..(Len(ts) - 1) : HeaderKeys(Tbl(ts, i)) = header}
    IN IF S = {} THEN None ELSE Some(Ascending(S))

\* build_table_pindices with `0..header.len()` for `0..=header.len()`: a
\* header is not listed under itself
build_table_pindices_exclusive(ts, prefix) ==
    LET S == {i \in 0..(Len(ts) - 1) :
                /\ Len(Tbl(ts, i).header) > Len(prefix)
                /\ Prefix(HeaderKeys(Tbl(ts, i)), Len(prefix)) = prefix}
    IN IF S = {} THEN None ELSE Some(Ascending(S))

\* build_table_pindices(tables).get(prefix)
build_table_pindices(ts, prefix) ==
    LET S == {i \in 0..(Len(ts) - 1) :
                /\ Len(Tbl(ts, i).header) >= Len(prefix)
                /\ Prefix(HeaderKeys(Tbl(ts, i)), Len(prefix)) = prefix}
    IN IF S = {} THEN None ELSE Some(Ascending(S))

\* the bisection landing after an entry equal to x instead of on it
binary_search_after(entries, x) == Cardinality({j \in 1..Len(entries) : entries[j] <= x})

\* entries.binary_search(&x).unwrap_or_else(|v| v), 0-based, on ascending
\* entries without repetition: the place of x, or where x would be inserted
binary_search(entries, x) == Cardinality({j \in 1..Len(entries) : entries[j] < x})

\* the identical-header check left out
headers_equal_skipped(hdr_a, hdr_b) == FALSE

\* headers_equal comparing the spans along with the keys
headers_equal_with_spans(hdr_a, hdr_b) == hdr_a = hdr_b

headers_equal(hdr_a, hdr_b) ==
    IF Len(hdr_a) # Len(hdr_b) THEN FALSE
    ELSE \A i \in 1..Len(hdr_a) : hdr_a[i].key = hdr_b[i].key

\* the first entry from `start` (0-based) on that is below max and satisfies P
FirstFrom(entries, start, max, P(_)) ==
    LET ok == {j \in (start + 1)..Len(entries) : entries[j] < max /\ P(entries[j])}
    IN IF ok = {} THEN None
       ELSE Some(entries[CHOOSE j \in ok : \A k \in ok : j <= k])

\* the lookup of next_key_seed without its test of values.is_some()
next_table_any_values(ts, prefix_stripped, cur, max) ==
    LET got == build_table_pindices(ts, prefix_stripped)
    IN IF ~got.some THEN None
       ELSE LET entries == got.v
                start == binary_search(entries, cur)
                AnyValues(i) == TRUE
            IN IF start = Len(entries) \/ entries[start + 1] < cur THEN None
               ELSE FirstFrom(entries, start, max, AnyValues)

\* the lookup of next_key_seed bisecting for the place after cur
next_table_past_cur(ts, prefix_stripped, cur, max) ==
    LET got == build_table_pindices(ts, prefix_stripped)
    IN IF ~got.some THEN None
       ELSE LET entries == got.v
                start == binary_search(entries, cur + 1)
                HasValues(i) == Tbl(ts, i).values.some
            IN IF start = Len(entries) \/ entries[start + 1] < cur THEN None
               ELSE FirstFrom(entries, start, max, HasValues)

\* next_key_seed: the fragment to look at next
next_table(ts, prefix_stripped, cur, max) ==
    LET got == build_table_pindices(ts, prefix_stripped)
    IN IF ~got.some THEN None
       ELSE LET entries == got.v
                start == binary_search(entries, cur)
                HasValues(i) == Tbl(ts, i).values.some
            IN IF start = Len(entries) \/ entries[start + 1] < cur THEN None
               ELSE FirstFrom(entries, start, max, HasValues)

\* next_sibling without its test of the array flag
next_sibling_any_kind(ts, header_stripped, start_idx, max) ==
    LET got == build_table_indices(ts, header_stripped)
        AnyKind(i) == TRUE
        found == IF ~got.some THEN None
                 ELSE LET entries == got.v
                          start == binary_search(entries, start_idx)
                      IN IF start = Len(entries) \/ entries[start + 1] < start_idx
                         THEN None
                         ELSE FirstFrom(entries, start, max, AnyKind)
    IN IF found.some THEN found.v ELSE max

\* next_sibling looking through the whole exact index, up to the end of
\* the document, whatever the bound of the sequence
next_sibling_to_document_end(ts, header_stripped, start_idx, max) ==
    LET got == build_table_indices(ts, header_stripped)
        IsArray(i) == Tbl(ts, i).array
        found == IF ~got.some THEN None
                 ELSE LET entries == got.v
                          start == binary_search(entries, start_idx)
                      IN IF start = Len(entries) \/ entries[start + 1] < start_idx
                         THEN None
                         ELSE FirstFrom(entries, start, Len(ts), IsArray)
    IN IF found.some THEN found.v ELSE Len(ts)

\* the search for the next element starting at the element itself
next_sibling_from_parent(ts, header_stripped, start_idx, max) ==
    LET got == build_table_indices(ts, header_stripped)
        IsArray(i) == Tbl(ts, i).array
        found == IF ~got.some THEN None
                 ELSE LET entries == got.v
                          start == binary_search(entries, start_idx - 1)
                      IN IF start = Len(entries) \/ entries[start + 1] < start_idx - 1
                         THEN None
                         ELSE FirstFrom(entries, start, max, IsArray)
    IN IF found.some THEN found.v ELSE max

\* next_element_seed: where the next element of the array starts
next_sibling(ts, header_stripped, start_idx, max) ==
    LET got == build_table_indices(ts, header_stripped)
        IsArray(i) == Tbl(ts, i).array
        found == IF ~got.some THEN None
                 ELSE LET entries == got.v
                          start == binary_search(entries, start_idx)
                      IN IF start = Len(entries) \/ entries[start + 1] < start_idx
                         THEN None
                         ELSE FirstFrom(entries, start, max, IsArray)
    IN IF found.some THEN found.v ELSE max

(***************************************************************************)
(* The value bridge with a consumer that builds the value tree it is       *)
(* shown: ValueDeserializer::deserialize_any, SeqDeserializer and          *)
(* InlineTableDeserializer as MapAccess.  A tree is an integer, a map (its *)
(* key/value pairs in the order delivered) or a sequence.                  *)
(***************************************************************************)
IntTree(i) == [t |-> "int", i |-> i]
StrTree(s) == [t |-> "str", s |-> s]
MapTree(kv) == [t |-> "map", kv |-> kv]
SeqTree(el) == [t |-> "seq", el |-> el]

RECURSIVE deserialize_any(_)
\* the key set kept as a list that takes every key
insert_always_new(keys, key) == FALSE

\* !self.keys.insert(key): the key was delivered before at this level
insert_fails(keys, key) == key \in keys

RECURSIVE visit_inline(_, _, _)
RECURSIVE visit_array(_, _)
deserialize_any(v) ==
    LET res == CASE v.e = "Integer" ->
                        IF v.i \in consumer
                        THEN Err(custom(None, "invalid type: integer"))
                        ELSE Ok(IntTree(v.i))
                 [] v.e = "String" -> Ok(StrTree(v.s))
                 [] v.e = "Array" -> visit_array(v.elems, <<>>)
                 [] v.e \in {"InlineTable", "DottedTable"} ->
                        visit_inline(v.pairs, {}, <<>>)
    \* the `?` of the Array arm returns the visitor's error as it is; the
    \* other arms go through res.map_err
    IN IF res.ok \/ v.e = "Array" THEN res
       ELSE Err(fix_offset(res.e, Some(v.start)))
\* InlineTableDeserializer: next_key_seed and next_value_seed in turn
visit_inline(values, keys, acc) ==
    IF values = <<>> THEN Ok(MapTree(acc))
    ELSE LET p == Head(values)
         IN IF insert_fails(keys, p.key)
            THEN Err(from_kind(Some(p.span), "DuplicateKey", p.key))
            ELSE LET r == deserialize_any(p.value)
                 IN IF ~r.ok THEN r
                    ELSE visit_inline(Tail(values), keys \cup {p.key},
                                      Append(acc, <<p.key, r.v>>))
visit_array(elems, acc) ==
    IF elems = <<>> THEN Ok(SeqTree(acc))
    ELSE LET r == deserialize_any(Head(elems))
         IN IF ~r.ok THEN r
            ELSE visit_array(Tail(elems), Append(acc, r.v))

(***************************************************************************)
(* MapVisitor.  A frame holds the fields of the struct and, for the        *)
(* consumer that drives it, the key it was last given (pending) and what   *)
(* it has built so far (acc).                                              *)
(***************************************************************************)
Frame(values, depth, cur_parent, max, arr) ==
    [values |-> values, next_value |-> None, depth |-> depth, cur |-> 0,
     cur_parent |-> cur_parent, max |-> max, array |-> arr, keys |-> {},
     pending |-> None, acc |-> <<>>]

Panic(what) == from_kind(None, "panic", what)

\* the array test made on the parent fragment instead of the one found
redefines_as_array_of_parent(parent, table) == parent.array

\* next_key_seed: the fragment whose own table is to be read is an array
\* header (`[[foo.bar]]` then `[[foo]]`)
redefines_as_array(parent, table) == table.array

\* the narrowing test with its comparison turned around
narrows_to_longer(parent_len, cur_len) == cur_len > parent_len

\* next_key_seed: a shorter header found under a longer parent narrows
\* cur_parent to the fragment found
narrows(parent_len, cur_len) == cur_len < parent_len

RECURSIVE next_key_loop(_, _, _, _)
\* the loop of MapAccess::next_key_seed: the key delivered
\* ("key"), the end of the map ("none") or the error ("err"), with the
\* frame and the fragments as the call leaves them and the fragments it
\* selected (seen)
next_key_loop(lens, f, ts, seen) ==
    IF f.next_value.some
    THEN [r |-> "err", e |-> Panic("assert next_value.is_none"), f |-> f,
          ts |-> ts, seen |-> seen]
    ELSE IF f.values # <<>>
    THEN LET p == Head(f.values)
             f1 == [f EXCEPT !.values = Tail(@)]
         IN IF insert_fails(f.keys, p.key)
            THEN [r |-> "err", e |-> from_kind(Some(p.span), "DuplicateKey", p.key),
                  f |-> f1, ts |-> ts, seen |-> seen]
            ELSE [r |-> "key", key |-> p.key,
                  f |-> [f1 EXCEPT !.keys = @ \cup {p.key}, !.next_value = Some(p)],
                  ts |-> ts, seen |-> seen]
    ELSE IF f.cur_parent >= Len(ts) \/ f.depth > Len(Tbl(ts, f.cur_parent).header)
    THEN [r |-> "err", e |-> Panic("index out of bounds"), f |-> f,
          ts |-> ts, seen |-> seen]
    ELSE
    LET prefix_stripped == Prefix(HeaderKeys(Tbl(ts, f.cur_parent)), f.depth)
        nt == next_table(ts, prefix_stripped, f.cur, f.max)
    IN  IF ~nt.some THEN [r |-> "none", f |-> f, ts |-> ts, seen |-> seen]
        ELSE
        LET pos == nt.v
            table == Tbl(ts, pos)
            parent == Tbl(ts, f.cur_parent)
            duplicate == /\ f.cur_parent # pos
                         /\ headers_equal(parent.header, table.header)
            narrow == /\ f.cur_parent # pos
                      /\ narrows(Len(parent.header), Len(table.header))
            f1 == [f EXCEPT !.cur = pos,
                            !.cur_parent = IF narrow THEN pos ELSE @]
            seen1 == seen \cup {pos}
        IN  IF duplicate
            THEN [r |-> "err",
                  e |-> error(lens, table.at, "DuplicateTable",
                              Join(HeaderKeys(table))),
                  f |-> [f EXCEPT !.cur = pos], ts |-> ts, seen |-> seen1]
            ELSE IF f.depth # Len(table.header)
            THEN IF f.depth > Len(table.header)
                 THEN [r |-> "err", e |-> Panic("index out of bounds"), f |-> f1,
                       ts |-> ts, seen |-> seen1]
                 ELSE LET seg == table.header[f.depth + 1]
                      IN IF insert_fails(f1.keys, seg.key)
                         THEN [r |-> "err",
                               e |-> from_kind(Some(seg.start), "DuplicateKey", seg.key),
                               f |-> f1, ts |-> ts, seen |-> seen1]
                         ELSE [r |-> "key", key |-> seg.key,
                               f |-> [f1 EXCEPT !.keys = @ \cup {seg.key}],
                               ts |-> ts, seen |-> seen1]
            ELSE IF redefines_as_array(parent, table)
            THEN [r |-> "err", e |-> error(lens, table.at, "RedefineAsArray", ""),
                  f |-> f1, ts |-> ts, seen |-> seen1]
            ELSE IF ~table.values.some
            THEN [r |-> "err", e |-> Panic("Unable to read table values"),
                  f |-> f1, ts |-> ts, seen |-> seen1]
            ELSE next_key_loop(lens, [f1 EXCEPT !.values = table.values.v],
                               [ts EXCEPT ![pos + 1].values = None], seen1)

\* MapAccess::next_key_seed
next_key_seed(lens, f, ts) ==
    IF f.cur_parent = f.max \/ f.cur = f.max
    THEN [r |-> "none", f |-> f, ts |-> ts, seen |-> {}]
    ELSE next_key_loop(lens, f, ts, {})

RECURSIVE Unwind(_, _, _)
\* an error leaving the frames below the one that raised it, innermost
\* (last) first: next_value_seed prepends the header segment it descended
\* through, next_element_seed passes the error on
Unwind(e, frames, ts) ==
    IF frames = <<>> THEN e
    ELSE LET g == frames[Len(frames)]
             below == SubSeq(frames, 1, Len(frames) - 1)
         IN IF g.array THEN Unwind(e, below, ts)
            ELSE Unwind(add_key_context(e, Tbl(ts, g.cur - 1).header[g.depth + 1].key),
                        below, ts)

\* the attribution made to the first fragment of the document
SurfaceAtFirst(e, ts, lens) ==
    fix_linecol(fix_offset(e, IF ts = <<>> THEN None ELSE Some(ts[1].at)), lens)

\* the map_err of Deserializer::deserialize_any
Surface(e, ts, lens) ==
    fix_linecol(fix_offset(e, IF ts = <<>> THEN None ELSE Some(ts[Len(ts)].at)), lens)

NoResult == [t |-> "none"]

Top == stack[Len(stack)]
Below == SubSeq(stack, 1, Len(stack) - 1)

\* the traversal ends with an error
Fail(e, ts) ==
    /\ pc' = "done"
    /\ err' = IF e.kind = "panic" THEN e ELSE Surface(Unwind(e, Below, ts), ts, input)
    /\ stack' = <<>>
    /\ tables' = ts
    /\ UNCHANGED result

\* the top frame is done and hands what the consumer built to its caller:
\* the driver, a next_value_seed or a next_element_seed
Return(tree, max, ts) ==
    /\ tables' = ts
    /\ UNCHANGED err
    /\ IF Below = <<>>
       THEN /\ pc' = "done"
            /\ result' = tree
            /\ stack' = <<>>
       ELSE LET g == Below[Len(Below)]
                g1 == IF g.array
                      THEN [g EXCEPT !.acc = Append(@, tree), !.cur_parent = max]
                      ELSE [g EXCEPT !.acc = Append(@, <<g.pending.v, tree>>),
                                     !.pending = None]
            IN /\ stack' = [Below EXCEPT ![Len(Below)] = g1]
               /\ UNCHANGED <<pc, result>>

\* Deserializer::deserialize_any once line() returns None: the fragment
\* list is complete and the consumer is handed the root MapVisitor
TablesEof ==
    /\ pc = "parse"
    /\ script = <<>>
    /\ tables' = PushCur(tables, cur_table)
    /\ stack' = <<Frame(<<>>, 0, 0, Len(tables'), FALSE)>>
    /\ doc' = tables'
    /\ pc' = "traverse"
    /\ UNCHANGED <<input, script, cur_table, reached, result, err, num, consumer, rendered>>

\* the consumer asks a map for its next key
NextKey ==
    /\ pc = "traverse"
    /\ ~Top.array
    /\ ~Top.pending.some
    /\ LET r == next_key_seed(input, Top, tables)
       IN /\ reached' = reached \cup r.seen
          /\ CASE r.r = "key" ->
                    /\ stack' = [stack EXCEPT ![Len(stack)] =
                                    [r.f EXCEPT !.pending = Some(r.key)]]
                    /\ tables' = r.ts
                    /\ UNCHANGED <<pc, result, err>>
               [] r.r = "none" -> Return(MapTree(r.f.acc), r.f.max, r.ts)
               [] r.r = "err" -> Fail(r.e, r.ts)
    /\ UNCHANGED <<input, script, cur_table, doc, num, consumer, rendered>>

\* the consumer asks a map for the value of the key it was given
NextValue ==
    /\ pc = "traverse"
    /\ ~Top.array
    /\ Top.pending.some
    /\ IF Top.next_value.some
       THEN LET p == Top.next_value.v
                r == deserialize_any(p.value)
            IN IF r.ok
               THEN /\ stack' = [stack EXCEPT ![Len(stack)] =
                                    [Top EXCEPT !.next_value = None,
                                                !.pending = None,
                                                !.acc = Append(@, <<p.key, r.v>>)]]
                    /\ UNCHANGED <<pc, tables, result, err>>
               ELSE Fail(add_key_context(r.e, p.key), tables)
       ELSE IF Top.cur >= Len(tables) \/ Tbl(tables, Top.cur).header = <<>>
       THEN Fail(Panic("index out of bounds"), tables)
       ELSE LET arr == /\ Tbl(tables, Top.cur).array
                       /\ Top.depth = Len(Tbl(tables, Top.cur).header) - 1
                child == Frame(<<>>, Top.depth + (IF arr THEN 0 ELSE 1),
                               Top.cur, Top.max, arr)
            IN /\ stack' = Append([stack EXCEPT ![Len(stack)].cur = @ + 1], child)
               /\ UNCHANGED <<pc, tables, result, err>>
    /\ UNCHANGED <<input, script, cur_table, doc, reached, num, consumer, rendered>>

\* the consumer asks an array of tables for its next element
NextElement ==
    /\ pc = "traverse"
    /\ Top.array
    /\ IF Top.next_value.some \/ Top.values # <<>>
       THEN Fail(Panic("assert"), tables)
       ELSE IF Top.cur_parent = Top.max
       THEN Return(SeqTree(Top.acc), Top.max, tables)
       ELSE IF Top.cur_parent >= Len(tables)
       THEN Fail(Panic("index out of bounds"), tables)
       ELSE LET parent == Tbl(tables, Top.cur_parent)
                next == next_sibling(tables, HeaderKeys(parent),
                                     Top.cur_parent + 1, Top.max)
            IN IF ~parent.values.some
               THEN Fail(Panic("Unable to read table values"), tables)
               ELSE /\ stack' = Append(stack,
                                    Frame(parent.values.v, Top.depth + 1,
                                          Top.cur_parent, next, FALSE))
                    /\ tables' = [tables EXCEPT ![Top.cur_parent + 1].values = None]
                    /\ UNCHANGED <<pc, result, err>>
    /\ UNCHANGED <<input, script, cur_table, doc, reached, num, consumer, rendered>>

NoNum == [s |-> <<>>, plus |-> FALSE]

Init ==
    /\ pc = "parse"
    /\ input = <<>>
    /\ script = <<>>
    /\ tables = <<>>
    /\ cur_table = EmptyTable
    /\ doc = <<>>
    /\ stack = <<>>
    /\ reached = {}
    /\ result = NoResult
    /\ err = NoError
    /\ num = NoNum
    /\ consumer = {}
    /\ rendered = None

\* the next line of a document that is not scripted
FreeLine ==
    \E line \in HeaderLines \cup KeyValueLines(Len(input) + 1) :
        /\ Len(input) < MaxLines
        /\ script = <<>>
        /\ (TableLine(line) \/ KeyValueLine(line))
        /\ UNCHANGED script

Next == FreeLine \/ TablesEof \/ NextKey \/ NextValue \/ NextElement

Spec == Init /\ [][Next]_vars

(***************************************************************************)
(* What a document means, read off the fragment list without the           *)
(* traversal: the map of a header path p inside the fragments lo..hi-1     *)
(* holds the pairs of the fragment `own` (-1: none) and one entry for each *)
(* next segment of the headers that extend p; the entry is a sequence, one *)
(* map for each `[[p.k]]` of the scope, when p.k is declared as an array.  *)
(* Maps are compared as sets of pairs.                                     *)
(***************************************************************************)
RECURSIVE Norm(_)
Norm(tree) ==
    CASE tree.t = "map" ->
            [t |-> "map", kv |-> {<<tree.kv[i][1], Norm(tree.kv[i][2])>> :
                                    i \in 1..Len(tree.kv)}]
      [] tree.t = "seq" ->
            [t |-> "seq", el |-> [i \in 1..Len(tree.el) |-> Norm(tree.el[i])]]
      [] OTHER -> tree

HasPrefix(fr, i, p) ==
    /\ Len(Tbl(fr, i).header) >= Len(p)
    /\ Prefix(HeaderKeys(Tbl(fr, i)), Len(p)) = p

\* the fragments of lo..hi-1 whose header is exactly p and that are arrays
Elements(fr, p, lo, hi) ==
    {i \in lo..(hi - 1) : HeaderKeys(Tbl(fr, i)) = p /\ Tbl(fr, i).array}

\* the fragments of lo..hi-1 whose header is exactly p and that are plain
Plain(fr, p, lo, hi) ==
    {i \in lo..(hi - 1) : HeaderKeys(Tbl(fr, i)) = p /\ ~Tbl(fr, i).array}

\* the next segments of the headers of lo..hi-1 that extend p
Kids(fr, p, lo, hi) ==
    {HeaderKeys(Tbl(fr, i))[Len(p) + 1] :
        i \in {j \in lo..(hi - 1) :
                    HasPrefix(fr, j, p) /\ Len(Tbl(fr, j).header) > Len(p)}}

Least(S) == CHOOSE x \in S : \A y \in S : x <= y

\* where the element that starts at fragment e ends
ElementEnd(fr, p, e, hi) ==
    LET later == {i \in Elements(fr, p, e + 1, hi) : TRUE}
    IN IF later = {} THEN hi ELSE Least(later)

PairTrees(fr, own) ==
    IF own < 0 \/ ~Tbl(fr, own).values.some THEN {}
    ELSE LET ps == Tbl(fr, own).values.v
         IN {<<ps[i].key, Norm(deserialize_any(ps[i].value).v)>> : i \in 1..Len(ps)}

RECURSIVE Denote(_, _, _, _, _)
Denote(fr, p, lo, hi, own) ==
    [t |-> "map",
     kv |-> PairTrees(fr, own) \cup
            {<<k, LET q == Append(p, k)
                      els == Elements(fr, q, lo, hi)
                      pl == Plain(fr, q, lo, hi)
                  IN IF els # {}
                     THEN LET es == Ascending(els)
                          IN [t |-> "seq",
                              el |-> [j \in 1..Len(es) |->
                                        Denote(fr, q, es[j],
                                               ElementEnd(fr, q, es[j], hi), es[j])]]
                     ELSE Denote(fr, q, lo, hi,
                                 IF pl = {} THEN -1 ELSE Least(pl))>> :
                k \in Kids(fr, p, lo, hi)}]

\* the value under key k of a map the consumer built
HasKey(tree, k) == \E i \in 1..Len(tree.kv) : tree.kv[i][1] = k
Get(tree, k) == tree.kv[CHOOSE i \in 1..Len(tree.kv) : tree.kv[i][1] = k][2]

Finished == pc = "done" /\ err.kind = "none"

RECURSIVE ArraysDelivered(_, _, _, _)
\* in the map `tree` built for header path p over the fragments lo..hi-1,
\* every key declared as an array holds one map per `[[p.k]]`, in order,
\* each with the pairs of its fragment and the sub-tables up to the next
ArraysDelivered(tree, p, lo, hi) ==
    \A k \in Kids(doc, p, lo, hi) :
        LET q == Append(p, k)
            els == Elements(doc, q, lo, hi)
            es == Ascending(els)
        IN /\ HasKey(tree, k)
           /\ IF els # {}
              THEN /\ Get(tree, k).t = "seq"
                   /\ Len(Get(tree, k).el) = Cardinality(els)
                   /\ \A j \in 1..Len(es) :
                        /\ Get(tree, k).el[j].t = "map"
                        /\ Norm(Get(tree, k).el[j]) =
                             Denote(doc, q, es[j], ElementEnd(doc, q, es[j], Len(doc)), es[j])
              ELSE /\ Get(tree, k).t = "map"
                   /\ ArraysDelivered(Get(tree, k), q, lo, hi)

\* C1: when a document traverses without error, every header declared as
\* `[[h]]` k times in one scope is delivered under h's last key as one
\* sequence of exactly k maps in declaration order, the i-th map holding
\* the pairs of the i-th `[[h]]` fragment and the sub-tables declared
\* after it and before the next `[[h]]`, and nothing else.
C1_ArrayOfTablesInOrder ==
    Finished => ArraysDelivered(result, <<>>, 0, Len(doc))

\* a finished traversal of `[[a]]`, a sub-table, `[[a]]`, a pair: two
\* elements, the first with the sub-table only, the second with the pair only
C1_Witness ==
    /\ Finished
    /\ Len(doc) = 3
    /\ Elements(doc, <<"a">>, 0, 3) = {0, 2}
    /\ HasKey(result, "a")
    /\ Get(result, "a").t = "seq"
    /\ Len(Get(result, "a").el) = 2
    /\ \E k \in Keys : /\ HasKey(Get(result, "a").el[1], k)
                       /\ Get(Get(result, "a").el[1], k).t = "map"
                       /\ HasKey(Get(result, "a").el[2], k)
                       /\ Get(Get(result, "a").el[2], k).t = "int"

\* h is a proper prefix of the header of fragment i
ProperPrefixOf(fr, m, i) ==
    /\ Len(Tbl(fr, m).header) < Len(Tbl(fr, i).header)
    /\ HasPrefix(fr, i, HeaderKeys(Tbl(fr, m)))

\* fragments i < j lie in the same element of every enclosing array of
\* tables: no `[[q]]` with q a proper prefix of their header opens a new
\* element between them
SameScope(fr, i, j) ==
    \A m \in (i + 1)..(j - 1) : ~(Tbl(fr, m).array /\ ProperPrefixOf(fr, m, j))

\* j is the first plain re-declaration of the plain table of fragment i
Redeclares(fr, i, j) ==
    /\ i < j
    /\ ~Tbl(fr, i).array /\ ~Tbl(fr, j).array
    /\ Tbl(fr, i).header # <<>>
    /\ HeaderKeys(Tbl(fr, i)) = HeaderKeys(Tbl(fr, j))
    /\ SameScope(fr, i, j)
    /\ \A m \in (i + 1)..(j - 1) : HeaderKeys(Tbl(fr, m)) # HeaderKeys(Tbl(fr, i))

Frags == 0..(Len(doc) - 1)

IsDuplicateTable(e, fr, j) ==
    /\ e.kind = "DuplicateTable"
    /\ e.name = Join(HeaderKeys(Tbl(fr, j)))
    /\ e.at = Some(Tbl(fr, j).at)

\* C2 as stated: two plain `[h]` fragments in one scope always end the
\* traversal with DuplicateTable naming h at the later fragment's header.
C2_AlwaysDuplicateTable ==
    pc = "done" =>
        \A i, j \in Frags : Redeclares(doc, i, j) => IsDuplicateTable(err, doc, j)

\* C2 as amended: the two tables are never merged (the later fragment's
\* pairs are never taken and the traversal ends in an error), and once the
\* traversal has reached the later fragment the error is DuplicateTable
\* naming h at that fragment's header; before that another error may end it.
C2_DuplicateTableUnlessEarlierError ==
    \A i, j \in Frags :
        Redeclares(doc, i, j) =>
            /\ Tbl(tables, j).values.some
            /\ pc = "done" => err.kind # "none"
            /\ (pc = "done" /\ j \in reached) => IsDuplicateTable(err, doc, j)

\* the error is reported for a re-declaration with another fragment
\* standing between the two, and for one that follows at once
C2_WitnessApart ==
    /\ pc = "done"
    /\ \E i, j \in Frags : /\ Redeclares(doc, i, j) /\ j > i + 1 /\ j \in reached
                           /\ IsDuplicateTable(err, doc, j)

C2_WitnessAdjacent ==
    /\ pc = "done"
    /\ \E i \in Frags : /\ i + 1 \in Frags /\ Redeclares(doc, i, i + 1)
                        /\ i + 1 \in reached
                        /\ IsDuplicateTable(err, doc, i + 1)

C2_Witness == pc = "done" /\ (C2_WitnessApart \/ C2_WitnessAdjacent)

(***************************************************************************)
(* The document of tests/backcompat.rs, allow_duplicate_after_longer, read *)
(* from a script: `[dependencies.openssl-sys]`, `[dependencies]` and       *)
(* `[dependencies]` again, each followed by one assignment, written with   *)
(* an indentation of 0..MaxIndent spaces, with or without the blank lines  *)
(* of the test.  The test itself indents by 8 and has the blank lines.     *)
(***************************************************************************)
MaxIndent == 8

BackcompatScript(indent, blanks) ==
    LET blank == IF blanks THEN <<[kind |-> "blank", indent |-> 0]>> ELSE <<>>
        hdr(h) == [kind |-> "table", indent |-> indent, array |-> FALSE, header |-> h]
        kv(k) == [kind |-> "kv", indent |-> indent, key |-> <<k>>,
                  val |-> [e |-> "Integer", i |-> 1]]
    IN blank \o <<hdr(<<"dependencies", "openssl-sys">>), kv("version")>>
       \o blank \o <<hdr(<<"dependencies">>), kv("libc")>>
       \o blank \o <<hdr(<<"dependencies">>), kv("bitflags")>>
       \o <<[kind |-> "blank", indent |-> 4]>>

InitBackcompat ==
    /\ pc = "parse"
    /\ input = <<>>
    /\ script \in {BackcompatScript(n, b) : n \in 0..MaxIndent, b \in BOOLEAN}
    /\ tables = <<>>
    /\ cur_table = EmptyTable
    /\ doc = <<>>
    /\ stack = <<>>
    /\ reached = {}
    /\ result = NoResult
    /\ err = NoError
    /\ num = NoNum
    /\ consumer = {}
    /\ rendered = None

\* the next line of a scripted document
ScriptLine ==
    /\ script # <<>>
    /\ \/ TableLine(Head(script))
       \/ KeyValueLine(Head(script))
       \/ BlankLine(Head(script))
    /\ script' = Tail(script)

NextBackcompat == ScriptLine \/ TablesEof \/ NextKey \/ NextValue

SpecBackcompat == InitBackcompat /\ [][NextBackcompat]_vars

\* the line (0-based) of the script's third header, and its indentation
ThirdHeaderLine == Len(input) - 3
ThirdHeaderIndent == doc[3].at - InputLen(SubSeq(input, 1, ThirdHeaderLine))

\* C3: with `[p.q]` declared first and `[p]` declared twice, the traversal
\* accepts the first `[p]`, narrowing cur_parent from the `[p.q]` fragment
\* to it, and fails at the second `[p]` with DuplicateTable naming p, at
\* the offset of that header's `[`, with key path exactly p; the error is
\* rendered with the line and column of that `[`, line 8 column 9 in the test.
C3_DuplicateAfterLonger ==
    /\ \A n \in 1..Len(stack) :
          stack[n].depth = 1 =>
             stack[n].cur_parent = IF Tbl(tables, 1).values.some THEN 0 ELSE 1
    /\ pc = "done" =>
          /\ IsDuplicateTable(err, doc, 2)
          /\ err.name = "dependencies"
          /\ err.key = <<"dependencies">>
          /\ ~Tbl(tables, 0).values.some
          /\ ~Tbl(tables, 1).values.some
          /\ Tbl(tables, 2).values.some
          /\ err.line = Some(ThirdHeaderLine)
          /\ err.col = ThirdHeaderIndent
          /\ (ThirdHeaderIndent = 8 /\ Len(input) = 10) =>
                (err.line.v + 1 = 8 /\ err.col + 1 = 9)

\* the test's own layout: the error at line 8 column 9
C3_Witness ==
    /\ pc = "done"
    /\ Len(input) = 10
    /\ IsDuplicateTable(err, doc, 2)
    /\ doc[3].at = 106
    /\ err.line.v + 1 = 8
    /\ err.col + 1 = 9
    /\ err.key = <<"dependencies">>

\* fragment i is the first fragment whose header starts with the header p
\* of the later array fragment j, and its header is strictly longer than p
OpensLonger(fr, i, j) ==
    /\ i < j
    /\ Tbl(fr, j).array
    /\ ProperPrefixOf(fr, j, i)
    /\ SameScope(fr, i, j)
    /\ \A m \in 0..(i - 1) : ~HasPrefix(fr, m, HeaderKeys(Tbl(fr, j)))

IsRedefineAsArray(e, fr, j) ==
    /\ e.kind = "RedefineAsArray"
    /\ e.at = Some(Tbl(fr, j).at)

\* the tree holds a sequence at path p
RECURSIVE SeqAt(_, _)
SeqAt(tree, p) ==
    /\ p # <<>>
    /\ tree.t = "map"
    /\ HasKey(tree, Head(p))
    /\ IF Len(p) = 1 THEN Get(tree, Head(p)).t = "seq"
       ELSE SeqAt(Get(tree, Head(p)), Tail(p))

\* C4 as stated: a longer header opening p first and `[[p]]` later always
\* end the traversal with RedefineAsArray at that `[[p]]` header.
C4_AlwaysRedefineAsArray ==
    pc = "done" =>
        \A i, j \in Frags : OpensLonger(doc, i, j) => IsRedefineAsArray(err, doc, j)

\* the header path a frame of the traversal stands at: the keys pending in
\* the maps below it
RECURSIVE FramePath(_)
FramePath(n) ==
    IF n <= 1 THEN <<>>
    ELSE FramePath(n - 1) \o
         (IF stack[n - 1].pending.some THEN <<stack[n - 1].pending.v>> ELSE <<>>)

\* the consumer is being handed (or was handed) a sequence for the path p
DeliveredAsSeq(p) ==
    \/ \E n \in 1..Len(stack) : stack[n].array /\ FramePath(n) = p
    \/ SeqAt(result, p)

\* a plain `[p]` stands between the longer header i and `[[p]]` at j
PlainBetween(fr, i, j) ==
    \E m \in (i + 1)..(j - 1) :
        ~Tbl(fr, m).array /\ HeaderKeys(Tbl(fr, m)) = HeaderKeys(Tbl(fr, j))

\* C4 as amended: when a header strictly longer than p opens p first and
\* `[[p]]` follows in that scope, p is never delivered as a sequence, the
\* pairs under `[[p]]` are never taken and the traversal fails; once it
\* has reached `[[p]]` the error stands at that header, and it is
\* RedefineAsArray unless a plain `[p]` stands in between, when it is
\* DuplicateTable naming p.
C4_RedefineAsArrayWhenReached ==
    \A i, j \in Frags :
        OpensLonger(doc, i, j) =>
            /\ ~DeliveredAsSeq(HeaderKeys(Tbl(doc, j)))
            /\ Tbl(tables, j).values.some
            /\ pc = "done" => err.kind # "none"
            /\ (pc = "done" /\ j \in reached) =>
                  IF PlainBetween(doc, i, j)
                  THEN IsDuplicateTable(err, doc, j)
                  ELSE IsRedefineAsArray(err, doc, j)

\* `[[a.b]]` (or `[a.b]`) first, `[[a]]` later, and the error at `[[a]]`
C4_Witness ==
    /\ pc = "done"
    /\ \E i, j \in Frags : /\ OpensLonger(doc, i, j)
                           /\ j \in reached
                           /\ ~PlainBetween(doc, i, j)
                           /\ IsRedefineAsArray(err, doc, j)

\* the keys of a delivered map are pairwise distinct, at every depth
RECURSIVE DistinctKeys(_)
DistinctKeys(tree) ==
    CASE tree.t = "map" ->
            /\ \A i, j \in 1..Len(tree.kv) : tree.kv[i][1] = tree.kv[j][1] => i = j
            /\ \A i \in 1..Len(tree.kv) : DistinctKeys(tree.kv[i][2])
      [] tree.t = "seq" -> \A i \in 1..Len(tree.el) : DistinctKeys(tree.el[i])
      [] OTHER -> TRUE

\* the pair lists inside a Value: the levels of inline and dotted tables
RECURSIVE ValueLists(_)
ValueLists(v) ==
    CASE v.e \in {"InlineTable", "DottedTable"} ->
            {v.pairs} \cup UNION {ValueLists(v.pairs[i].value) : i \in 1..Len(v.pairs)}
      [] v.e = "Array" -> UNION {ValueLists(v.elems[i]) : i \in 1..Len(v.elems)}
      [] OTHER -> {}

\* the pairs of fragment m
OwnPairs(fr, m) == IF Tbl(fr, m).values.some THEN Tbl(fr, m).values.v ELSE <<>>

\* every pair list of the document: one per fragment and one per inline or
\* dotted table
PairLists(fr) ==
    UNION {{OwnPairs(fr, m)} \cup
           UNION {ValueLists(OwnPairs(fr, m)[i].value) : i \in 1..Len(OwnPairs(fr, m))} :
           m \in 0..(Len(fr) - 1)}

\* the pair at index j is the second pair of the list with the key k
SecondPair(ps, j, k) ==
    /\ ps[j].key = k
    /\ Cardinality({i \in 1..(j - 1) : ps[i].key = k}) = 1

\* the key k, found at byte `at`, occurred before at its level: as an
\* earlier pair of the same list, as a pair of a table whose sub-table
\* header then names it, or as a header segment before the pair
OccurredBefore(fr, k, at) ==
    \/ \E ps \in PairLists(fr) : \E j \in 1..Len(ps) :
          SecondPair(ps, j, k) /\ ps[j].span = at
    \/ \E j \in 0..(Len(fr) - 1) : \E d \in 1..Len(Tbl(fr, j).header) :
          /\ Tbl(fr, j).header[d].key = k
          /\ Tbl(fr, j).header[d].start = at
          /\ \E m \in 0..(j - 1) :
                \/ /\ HeaderKeys(Tbl(fr, m)) = Prefix(HeaderKeys(Tbl(fr, j)), d - 1)
                   /\ \E i \in 1..Len(OwnPairs(fr, m)) : OwnPairs(fr, m)[i].key = k
                \/ HasPrefix(fr, m, Prefix(HeaderKeys(Tbl(fr, j)), d))
    \/ \E j \in 0..(Len(fr) - 1) : \E i \in 1..Len(OwnPairs(fr, j)) :
          /\ OwnPairs(fr, j)[i].key = k
          /\ OwnPairs(fr, j)[i].span = at
          /\ \E m \in 0..(j - 1) :
                HasPrefix(fr, m, Append(HeaderKeys(Tbl(fr, j)), k))

\* a key is written twice in one pair list
HasDuplicatePair(fr) ==
    \E ps \in PairLists(fr) : \E j \in 1..Len(ps) : SecondPair(ps, j, ps[j].key)

\* a pair of fragment m and a header of the same scope that goes through
\* the table of m name the same key
HasPairAndHeader(fr) ==
    \E m, j \in 0..(Len(fr) - 1) : \E i \in 1..Len(OwnPairs(fr, m)) :
        /\ m # j
        /\ ~Tbl(fr, m).array
        /\ HasPrefix(fr, j, Append(HeaderKeys(Tbl(fr, m)), OwnPairs(fr, m)[i].key))
        /\ \A n \in 0..(Len(fr) - 1) :
              Tbl(fr, n).array => ~HasPrefix(fr, m, HeaderKeys(Tbl(fr, n)))

\* no header is written twice and none is an array header
PlainDistinct(fr) ==
    \A m, j \in 0..(Len(fr) - 1) :
        /\ ~Tbl(fr, m).array
        /\ HeaderKeys(Tbl(fr, m)) = HeaderKeys(Tbl(fr, j)) => m = j

\* C5: at every level each key is delivered at most once (in the maps
\* being built and in the result), a DuplicateKey error names a key at the
\* position of its second occurrence at a level, a document that writes a
\* key twice at a level never yields a result, and where no header can be
\* at fault the error it ends with is DuplicateKey.
C5_KeyDeliveredAtMostOnce ==
    /\ \A n \in 1..Len(stack) :
          ~stack[n].array =>
             /\ DistinctKeys(MapTree(stack[n].acc))
             /\ stack[n].pending.some =>
                   \A i \in 1..Len(stack[n].acc) :
                       stack[n].acc[i][1] # stack[n].pending.v
    /\ DistinctKeys(result)
    /\ (pc = "done" /\ err.kind = "DuplicateKey") =>
          /\ err.at.some
          /\ OccurredBefore(doc, err.name, err.at.v)
    /\ (pc = "done" /\ (HasDuplicatePair(doc) \/ HasPairAndHeader(doc))) =>
          /\ err.kind # "none"
          /\ PlainDistinct(doc) => err.kind = "DuplicateKey"

\* a second pair in a fragment, a second key in an inline table, a second
\* key in a dotted table and a header segment after a pair, each reported
C5_Witness ==
    /\ pc = "done"
    /\ err.kind = "DuplicateKey"
    /\ OccurredBefore(doc, err.name, err.at.v)
    /\ HasDuplicatePair(doc) \/ HasPairAndHeader(doc)

\* a document of plain tables in which no header and no key is written twice
DuplicateFreePlain(fr) ==
    /\ PlainDistinct(fr)
    /\ ~HasDuplicatePair(fr)
    /\ ~HasPairAndHeader(fr)

\* the header paths of a document and their prefixes
PathsOf(fr) ==
    UNION {{Prefix(HeaderKeys(Tbl(fr, i)), n) : n \in 0..Len(Tbl(fr, i).header)} :
           i \in 0..(Len(fr) - 1)}

\* the value delivered at the end of path p of a tree
RECURSIVE GetPath(_, _)
GetPath(tree, p) ==
    IF p = <<>> THEN tree
    ELSE IF tree.t = "map" /\ HasKey(tree, Head(p))
    THEN GetPath(Get(tree, Head(p)), Tail(p))
    ELSE NoResult

\* the pairs of the fragment `[p]`, as the keys and trees they denote
PairsOfPath(fr, p) ==
    UNION {PairTrees(fr, i) : i \in Plain(fr, p, 0, Len(fr))}

\* C6: in a duplicate-free document of plain tables the traversal succeeds
\* and the map delivered for each header path p holds exactly the pairs of
\* `[p]` and one nested map per distinct next segment of the headers that
\* extend p, wherever in the document those fragments stand.
C6_NonContiguousTablesMerged ==
    (pc = "done" /\ doc # <<>> /\ DuplicateFreePlain(doc)) =>
        /\ err.kind = "none"
        /\ \A p \in PathsOf(doc) :
              LET m == GetPath(result, p)
                  kids == Kids(doc, p, 0, Len(doc))
              IN /\ m.t = "map"
                 /\ Len(m.kv) = Cardinality(PairsOfPath(doc, p)) + Cardinality(kids)
                 /\ \A i \in 1..Len(m.kv) :
                       \/ <<m.kv[i][1], Norm(m.kv[i][2])>> \in PairsOfPath(doc, p)
                       \/ m.kv[i][1] \in kids /\ m.kv[i][2].t = "map"
                 /\ \A k \in kids : HasKey(m, k)
                 /\ \A kv \in PairsOfPath(doc, p) : HasKey(m, kv[1])

\* `[a.b]`, an unrelated `[b]`, then `[a]` with a pair and `[a.a]`: the
\* map of a holds the pair and both sub-tables
C6_Witness ==
    /\ Finished
    /\ DuplicateFreePlain(doc)
    /\ \E i, j, l \in Frags :
          /\ i < j /\ j < l
          /\ HeaderKeys(Tbl(doc, i)) = <<"a", "b">>
          /\ HeaderKeys(Tbl(doc, j)) = <<"b">>
          /\ HeaderKeys(Tbl(doc, l)) = <<"a">>
          /\ OwnPairs(doc, l) # <<>>
    /\ Len(GetPath(result, <<"a">>).kv) = 2

(***************************************************************************)
(* Dotted keys.  One fragment is filled from a script of up to             *)
(* MaxAssignments assignments whose key chains share prefixes and whose    *)
(* values are integers, an array and inline tables with dotted keys of     *)
(* their own; the script stays whole and Len(input) tells how much of it   *)
(* has been read.                                                          *)
(***************************************************************************)
MaxAssignments == 3

DottedChains ==
    {<<"a">>, <<"a", "b">>, <<"a", "b", "c">>, <<"a", "b", "d">>, <<"a", "c">>}

DottedValues ==
    LET int(n) == [e |-> "Integer", i |-> n]
    IN {int(1), int(2),
        [e |-> "Array", pairs |-> <<[key |-> <<>>, val |-> int(1)]>>],
        [e |-> "InlineTable",
         pairs |-> <<[key |-> <<"a", "b">>, val |-> int(1)],
                     [key |-> <<"a", "c">>, val |-> int(2)]>>],
        [e |-> "InlineTable",
         pairs |-> <<[key |-> <<"a">>, val |-> int(1)],
                     [key |-> <<"a", "b">>, val |-> int(2)]>>]}

DottedLines ==
    {[kind |-> "kv", indent |-> 0, key |-> k, val |-> v] :
        k \in DottedChains, v \in DottedValues}

InitDotted ==
    /\ pc = "parse"
    /\ input = <<>>
    /\ script \in UNION {[1..n -> DottedLines] : n \in 1..MaxAssignments}
    /\ tables = <<>>
    /\ cur_table = EmptyTable
    /\ doc = <<>>
    /\ stack = <<>>
    /\ reached = {}
    /\ result = NoResult
    /\ err = NoError
    /\ num = NoNum
    /\ consumer = {}
    /\ rendered = None

\* the next assignment of the script
DottedLine ==
    /\ Len(input) < Len(script)
    /\ KeyValueLine(script[Len(input) + 1])
    /\ UNCHANGED script

NextDotted == DottedLine

SpecDotted == InitDotted /\ [][NextDotted]_vars

(***************************************************************************)
(* What a list of assignments means, without add_dotted_key: an entry for  *)
(* every plain key, and for every first key of a dotted chain one          *)
(* DottedTable, standing where the first such chain stood and holding what *)
(* the rests of all those chains mean.  Spans are left out: a shape is a   *)
(* list of [key, value], a value its variant, integer and list.            *)
(***************************************************************************)
ShapeOf(e, i, ps) == [e |-> e, i |-> i, ps |-> ps]

RECURSIVE Group(_)
Group(as) ==
    LET dotted(j) == Len(as[j].chain) > 1
        first(i) == ~dotted(i) \/
                    ~\E j \in 1..(i - 1) : dotted(j) /\ as[j].chain[1] = as[i].chain[1]
        at == Ascending({i \in 1..Len(as) : first(i)})
        rests(k) == LET js == Ascending({j \in 1..Len(as) :
                                            dotted(j) /\ as[j].chain[1] = k})
                    IN [n \in 1..Len(js) |->
                          [chain |-> Tail(as[js[n]].chain), val |-> as[js[n]].val]]
    IN [n \in 1..Len(at) |->
          LET a == as[at[n]]
          IN [key |-> a.chain[1],
              value |-> IF Len(a.chain) = 1 THEN a.val
                        ELSE ShapeOf("DottedTable", 0, Group(rests(a.chain[1])))]]

\* the shape a value literal denotes
RECURSIVE LitShape(_)
LitShape(lit) ==
    CASE lit.e = "Integer" -> ShapeOf("Integer", lit.i, <<>>)
      [] lit.e = "Array" ->
            ShapeOf("Array", 0, [n \in 1..Len(lit.pairs) |->
                                   [key |-> "", value |-> LitShape(lit.pairs[n].val)]])
      [] lit.e = "InlineTable" ->
            ShapeOf("InlineTable", 0,
                    Group([n \in 1..Len(lit.pairs) |->
                             [chain |-> lit.pairs[n].key,
                              val |-> LitShape(lit.pairs[n].val)]]))

\* the shape of a Value and of a pair list as the parser holds them
RECURSIVE ValueShape(_)
ValueShape(v) ==
    CASE v.e = "Integer" -> ShapeOf("Integer", v.i, <<>>)
      [] v.e = "Array" ->
            ShapeOf("Array", 0, [n \in 1..Len(v.elems) |->
                                   [key |-> "", value |-> ValueShape(v.elems[n])]])
      [] OTHER ->
            ShapeOf(v.e, 0, [n \in 1..Len(v.pairs) |->
                               [key |-> v.pairs[n].key,
                                value |-> ValueShape(v.pairs[n].value)]])

PairsShape(ps) == ValueShape([e |-> "DottedTable", pairs |-> ps]).ps

\* the assignments of the script read so far, but the last `back` of them
Assigned(back) ==
    [n \in 1..(Len(input) - back) |->
        [chain |-> script[n].key, val |-> LitShape(script[n].val)]]

\* the pair list of the fragment being filled
CurPairs == IF cur_table.values.some THEN cur_table.values.v ELSE <<>>

\* a proper prefix of the chain names, through the first entry of each
\* key, an entry that is not a DottedTable
RECURSIVE BlockedFirst(_, _)
BlockedFirst(ps, chain) ==
    /\ Len(chain) > 1
    /\ \E i \in 1..Len(ps) :
          /\ ps[i].key = chain[1]
          /\ \A j \in 1..(i - 1) : ps[j].key # chain[1]
          /\ \/ ps[i].value.e # "DottedTable"
             \/ BlockedFirst(ps[i].value.ps, Tail(chain))

\* a proper prefix of the chain names, through any entries, an entry that
\* is not a DottedTable
RECURSIVE BlockedAny(_, _)
BlockedAny(ps, chain) ==
    /\ Len(chain) > 1
    /\ \E i \in 1..Len(ps) :
          /\ ps[i].key = chain[1]
          /\ \/ ps[i].value.e # "DottedTable"
             \/ BlockedAny(ps[i].value.ps, Tail(chain))

\* an inline table literal one of whose own assignments is blocked
LitBlocked(lit) ==
    /\ lit.e = "InlineTable"
    /\ \E n \in 1..Len(lit.pairs) :
          BlockedFirst(Group([m \in 1..(n - 1) |->
                                [chain |-> lit.pairs[m].key,
                                 val |-> LitShape(lit.pairs[m].val)]]),
                       lit.pairs[n].key)

DottedFailed == pc = "done" /\ err.kind = "DottedKeyInvalidType"

\* C7: after any sequence of assignments that were all accepted, the pair
\* list of the fragment, and of every inline table among the values, holds
\* one DottedTable per shared prefix with the leaves in assignment order.
C7_DottedKeysMerged ==
    (pc = "parse" /\ script # <<>>) => PairsShape(CurPairs) = Group(Assigned(0))

\* `a.b.c = 1` then `a.b.d = 2`: a single a, holding a single b, holding c
\* and d in that order
C7_Witness ==
    /\ pc = "parse"
    /\ Len(input) = 2
    /\ script[1].key = <<"a", "b", "c">> /\ script[1].val = [e |-> "Integer", i |-> 1]
    /\ script[2].key = <<"a", "b", "d">> /\ script[2].val = [e |-> "Integer", i |-> 2]
    /\ Len(CurPairs) = 1
    /\ CurPairs[1].key = "a" /\ CurPairs[1].value.e = "DottedTable"
    /\ Len(CurPairs[1].value.pairs) = 1
    /\ CurPairs[1].value.pairs[1].key = "b"
    /\ CurPairs[1].value.pairs[1].value.e = "DottedTable"
    /\ LET leaves == CurPairs[1].value.pairs[1].value.pairs
       IN /\ Len(leaves) = 2
          /\ leaves[1].key = "c" /\ leaves[1].value.i = 1
          /\ leaves[2].key = "d" /\ leaves[2].value.i = 2

\* C8 as stated: an assignment one of whose proper prefixes names an entry
\* that is not a DottedTable fails with DottedKeyInvalidType and leaves the
\* pair list as it was.
C8_AnyNonTablePrefixFails ==
    (script # <<>> /\ Len(input) >= 1
       /\ BlockedAny(Group(Assigned(1)), script[Len(input)].key)) =>
        /\ DottedFailed
        /\ PairsShape(CurPairs) = Group(Assigned(1))

\* C8 as amended: the prefix is resolved through the first entry with each
\* key; the assignment fails with DottedKeyInvalidType exactly when that
\* entry is not a DottedTable (or an inline table of its value fails so),
\* and a failed assignment leaves the pair list as it was.
C8_FirstNonTablePrefixFails ==
    (script # <<>> /\ Len(input) >= 1) =>
        LET last == script[Len(input)]
            before == Group(Assigned(1))
        IN /\ (BlockedFirst(before, last.key) \/ LitBlocked(last.val)) <=> DottedFailed
           /\ pc = "done" => PairsShape(CurPairs) = before

\* `a = 1` then `a.b = 2`, and a chain blocked one level down
C8_Witness ==
    /\ DottedFailed
    /\ Len(input) >= 2
    /\ BlockedFirst(Group(Assigned(1)), script[Len(input)].key)
    /\ ~LitBlocked(script[Len(input)].val)
    /\ PairsShape(CurPairs) = Group(Assigned(1))
    /\ CurPairs # <<>>

(***************************************************************************)
(* Numbers.  The document is the one line `a = <literal>`: the literal is  *)
(* a Keylike token of up to MaxLiteral of the characters of NumChars, with *)
(* or without a `+` token before it.                                       *)
(***************************************************************************)
MaxLiteral == 5

NumChars == {"0", "1", "_", "-", "x", "F"}

NumberScript(n) ==
    <<[kind |-> "kv", indent |-> 0, key |-> <<"a">>,
       val |-> [e |-> "Number", plus |-> n.plus, s |-> n.s]]>>

InitNumber ==
    /\ pc = "parse"
    /\ input = <<>>
    /\ num \in [s : UNION {[1..n -> NumChars] : n \in 1..MaxLiteral}, plus : BOOLEAN]
    /\ script = NumberScript(num)
    /\ tables = <<>>
    /\ cur_table = EmptyTable
    /\ doc = <<>>
    /\ stack = <<>>
    /\ reached = {}
    /\ result = NoResult
    /\ err = NoError
    /\ consumer = {}
    /\ rendered = None

\* the line of the document
NumberLine ==
    /\ script # <<>>
    /\ KeyValueLine(Head(script))
    /\ script' = Tail(script)

NextNumber == NumberLine \/ TablesEof \/ NextKey \/ NextValue

SpecNumber == InitNumber /\ [][NextNumber]_vars

\* the line has been read and the literal was accepted, or refused
Accepted == script = <<>> /\ err.kind = "none"
Rejected == script = <<>> /\ pc = "done" /\ err.kind = "NumberInvalid"

\* the integer the fragment holds for the key `a`
NumValue == CurPairs[1].value.i

\* the characters of a base-10 literal: sign, digits and underscores
IsBase10(s) == \A n \in 1..Len(s) : s[n] \in {"0", "1", "_", "-"}

\* the literal without its sign
Unsigned(s) == IF s # <<>> /\ Head(s) = "-" THEN Tail(s) ELSE s

\* what the digits of a base-10 literal amount to, the underscores dropped
RECURSIVE DecimalOf(_)
DecimalOf(ds) ==
    IF ds = <<>> THEN 0
    ELSE LET c == ds[Len(ds)]
             front == SubSeq(ds, 1, Len(ds) - 1)
         IN IF c = "_" THEN DecimalOf(front)
            ELSE DecimalOf(front) * 10 + (IF c = "1" THEN 1 ELSE 0)

DecimalValue(s) ==
    IF Head(s) = "-" THEN 0 - DecimalOf(Unsigned(s)) ELSE DecimalOf(s)

\* the digit run starts with `0` and a further digit follows
ZeroThenDigit(s) ==
    LET ds == Unsigned(s)
    IN /\ ds # <<>>
       /\ ds[1] = "0"
       /\ \E n \in 2..Len(ds) : ds[n] \in {"0", "1"}

\* C9: an accepted base-10 literal has the value of its digits with the
\* underscores dropped (`1_000` is 1000); `0`, `-0` and `+0` are accepted
\* as 0; a digit run that starts with `0` and goes on with a further digit
\* (`01`, `-01`, `00`, `0_1`) is NumberInvalid.
C9_Base10Literals ==
    (script = <<>> /\ IsBase10(num.s)) =>
        /\ Accepted => NumValue = DecimalValue(num.s)
        /\ ZeroThenDigit(num.s) => Rejected
        /\ num.s \in {<<"0">>, <<"-", "0">>} => (Accepted /\ NumValue = 0)
        /\ (num.s = <<"1", "_", "0", "0", "0">>) => (Accepted /\ NumValue = 1000)

\* `a = 1_000` read and delivered as {a: 1000}
C9_Witness ==
    /\ Finished
    /\ num = [s |-> <<"1", "_", "0", "0", "0">>, plus |-> FALSE]
    /\ result = MapTree(<<<<"a", IntTree(1000)>>>>)

HexUnderscoreFF == [s |-> <<"0", "x", "_", "F", "F">>, plus |-> FALSE]

\* C10 as stated: `a = 0x_FF` parses to 255.
C10_HexLeadingUnderscoreParses ==
    (script = <<>> /\ num = HexUnderscoreFF) => (Accepted /\ NumValue = 255)

\* C10 as amended: `a = 0x_FF` is refused with NumberInvalid at the
\* underscore, line 1 column 7, and nothing is delivered; with the
\* underscore between the digits, `a = 0xF_F` parses to 255.
C10_HexLeadingUnderscoreInvalid ==
    /\ (script = <<>> /\ num = HexUnderscoreFF) =>
          /\ Rejected
          /\ err.at = Some(6) /\ err.line = Some(0) /\ err.col = 6
          /\ CurPairs = <<>>
    /\ (script = <<>> /\ num = [s |-> <<"0", "x", "F", "_", "F">>, plus |-> FALSE]) =>
          (Accepted /\ NumValue = 255)

C10_Witness ==
    /\ num = HexUnderscoreFF
    /\ Rejected
    /\ err.at = Some(6)

(***************************************************************************)
(* Documents read by a consumer that may fail: it refuses the integers of  *)
(* `consumer` where it is shown them (serde's invalid_type, raised in the  *)
(* visitor that ValueDeserializer::deserialize_any calls) and may give up  *)
(* on the map or sequence it is reading (serde's missing_field or          *)
(* unknown_field, raised in the visitor of that frame).  Both are          *)
(* Error::custom with no offset.                                           *)
(***************************************************************************)
MaxDocLines == 3

ConsumerLines ==
    LET int(n) == [e |-> "Integer", i |-> n]
        kv(k, v) == [kind |-> "kv", indent |-> 0, key |-> k, val |-> v]
        tbl(ps) == [e |-> "InlineTable", pairs |-> ps]
        pair(k, v) == [key |-> k, val |-> v]
        hd(a, h) == [kind |-> "table", indent |-> 0, array |-> a, header |-> h]
    IN {hd(FALSE, <<"a">>), hd(TRUE, <<"a">>), hd(FALSE, <<"a", "b">>),
        [kind |-> "blank", indent |-> 1]}
       \cup {kv(<<"a">>, int(n)) : n \in 1..2}
       \cup {kv(<<"a", "b">>, int(n)) : n \in 1..2}
       \cup {kv(<<"b">>, tbl(<<pair(<<"a">>, int(n))>>)) : n \in 1..2}
       \cup {kv(<<"b">>, tbl(<<pair(<<"a">>, tbl(<<pair(<<"b">>, int(2))>>))>>)),
             kv(<<"b">>, tbl(<<pair(<<"a">>, int(1)), pair(<<"a">>, int(2))>>)),
             kv(<<"b">>, [e |-> "Array", pairs |-> <<pair(<<>>, int(2))>>])}

InitConsumer ==
    /\ pc = "parse"
    /\ input = <<>>
    /\ script \in UNION {[1..n -> ConsumerLines] : n \in 0..MaxDocLines}
    /\ tables = <<>>
    /\ cur_table = EmptyTable
    /\ doc = <<>>
    /\ stack = <<>>
    /\ reached = {}
    /\ result = NoResult
    /\ err = NoError
    /\ num = NoNum
    /\ consumer \in {{}, {1}, {2}}
    /\ rendered = None

\* the visitor of the frame being read returns an error of its own
ConsumerRaises ==
    /\ pc = "traverse"
    /\ stack # <<>>
    /\ Fail(custom(None, "missing field"), tables)
    /\ UNCHANGED <<input, script, cur_table, doc, reached, num, consumer, rendered>>

NextConsumer ==
    ScriptLine \/ TablesEof \/ NextKey \/ NextValue \/ NextElement \/ ConsumerRaises

SpecConsumer == InitConsumer /\ [][NextConsumer]_vars

(***************************************************************************)
(* Where the integers of a document stand, read off the fragment list as   *)
(* the parser left it: the byte offset of each and the keys that lead to   *)
(* it, through headers, dotted keys and inline tables alike (an array adds *)
(* no key).                                                                *)
(***************************************************************************)
RECURSIVE Leaves(_, _)
Leaves(v, path) ==
    CASE v.e = "Integer" -> {[path |-> path, at |-> v.start, i |-> v.i]}
      [] v.e = "Array" ->
            UNION {Leaves(v.elems[j], path) : j \in 1..Len(v.elems)}
      [] v.e \in {"InlineTable", "DottedTable"} ->
            UNION {Leaves(v.pairs[j].value, Append(path, v.pairs[j].key)) :
                        j \in 1..Len(v.pairs)}

DocLeaves ==
    UNION {IF doc[t].values.some
           THEN UNION {Leaves(doc[t].values.v[j].value,
                              Append(HeaderKeys(doc[t]), doc[t].values.v[j].key)) :
                            j \in 1..Len(doc[t].values.v)}
           ELSE {} : t \in 1..Len(doc)}

\* the consumer refused an integer and the traversal ended with its error
Refused == pc = "done" /\ err.kind = "Custom" /\ err.name = "invalid type: integer"

\* the integer the consumer refused: the one standing at the error's offset
RefusedLeaves == {l \in DocLeaves : err.at = Some(l.at)}

\* C11: an error raised while the value at key path k1...kn is consumed
\* surfaces with exactly that key path, outermost key first, whether the
\* path runs through header tables, dotted tables or inline tables
C11_FullKeyPath ==
    Refused => \E l \in RefusedLeaves : err.key = l.path

\* the path of a refused integer runs through a dotted or inline table and
\* the error surfaced
C11_Witness ==
    /\ Refused
    /\ \E l \in RefusedLeaves : Len(l.path) > 1 /\ l.i \in consumer

(***************************************************************************)
(* Where the keys of a document stand: the span start of every pair key    *)
(* (at any depth) and of every header segment.                             *)
(***************************************************************************)
RECURSIVE PairKeySpans(_)
PairKeySpans(pairs) ==
    UNION {{[key |-> pairs[j].key, at |-> pairs[j].span]}
           \cup (IF pairs[j].value.e \in {"InlineTable", "DottedTable"}
                 THEN PairKeySpans(pairs[j].value.pairs) ELSE {}) :
                j \in 1..Len(pairs)}

DocKeySpans ==
    UNION {{[key |-> doc[t].header[j].key, at |-> doc[t].header[j].start] :
                j \in 1..Len(doc[t].header)}
           \cup (IF doc[t].values.some THEN PairKeySpans(doc[t].values.v) ELSE {}) :
                t \in 1..Len(doc)}

\* C12: an offset once set is kept.  The error of a refused integer
\* surfaces at the offset of that integer, set by the innermost value frame,
\* however many enclosing value frames and the driver applied fix_offset
\* after it; a DuplicateKey error surfaces at the span of a key of that name
C12_OffsetNeverReassigned ==
    /\ Refused => \E l \in DocLeaves : l.i \in consumer /\ err.at = Some(l.at)
    /\ pc = "done" /\ err.kind = "DuplicateKey" /\ doc # <<>> =>
            \E k \in DocKeySpans : k.key = err.name /\ err.at = Some(k.at)

\* a refused integer inside an inline or dotted table of a document whose
\* last fragment starts elsewhere: the enclosing value frame and the driver
\* both applied fix_offset to an error that already had its offset
C12_Witness ==
    /\ Refused
    /\ doc # <<>>
    /\ \E l \in DocLeaves :
            /\ l.i \in consumer
            /\ err.at = Some(l.at)
            /\ l.at # doc[Len(doc)].at
            /\ Len(l.path) >= 2

(***************************************************************************)
(* The line and column of a byte offset, counted on the input: the line is *)
(* the number of line ends before the offset, the column the distance from *)
(* the start of that line.                                                 *)
(***************************************************************************)
LineOf(off) ==
    Cardinality({i \in 1..Len(input) : InputLen(SubSeq(input, 1, i)) <= off})

ColOf(off) == off - InputLen(SubSeq(input, 1, LineOf(off)))

\* the consumer gave up on a frame of header tables: its error had no offset
GaveUp == pc = "done" /\ err.kind = "Custom" /\ err.name = "missing field"

\* C13: an error that reaches the driver without an offset surfaces at the
\* header offset of the last fragment of the document, with the line and
\* column of that offset, whichever table was being read; in a document
\* without fragments it surfaces with no position
C13_AttributedToLastFragment ==
    GaveUp =>
        IF doc = <<>>
        THEN ~err.at.some /\ ~err.line.some
        ELSE LET at == doc[Len(doc)].at
             IN /\ err.at = Some(at)
                /\ err.line = Some(LineOf(at))
                /\ err.col = ColOf(at)

\* the consumer gave up while reading a table that is not the last
\* fragment: the error carries the key of that table and the position of
\* another header, on a later line
C13_WitnessAttributed ==
    /\ GaveUp
    /\ Len(doc) >= 2
    /\ err.key # <<>>
    /\ err.key # HeaderKeys(doc[Len(doc)])
    /\ err.line.some
    /\ err.line.v >= 1

\* the consumer gave up on the root map of a document without fragments
C13_WitnessNoFragments == GaveUp /\ doc = <<>> /\ ~err.line.some

(***************************************************************************)
(* impl Display for Error: the writes of fmt, in order, on one string.     *)
(***************************************************************************)
\* the grave accent that fmt writes around a name; a string of this
\* notation cannot hold one, so it is written as an apostrophe
Tick == "'"

\* the match on self.kind, for the kinds the model raises
Message(e) ==
    CASE e.kind = "Wanted" -> "expected " \o e.name[1] \o ", found " \o e.name[2]
      [] e.kind = "NumberInvalid" -> "invalid number"
      [] e.kind = "DuplicateTable" -> "redefinition of table " \o Tick \o e.name \o Tick
      [] e.kind = "DuplicateKey" -> "duplicate key: " \o Tick \o e.name \o Tick
      [] e.kind = "RedefineAsArray" -> "table redefined as array"
      [] e.kind = "Custom" -> e.name
      [] e.kind = "ExpectedEmptyTable" -> "expected empty table"
      [] e.kind = "DottedKeyInvalidType" ->
            "dotted key attempted to extend non-table type"
      [] e.kind = "UnquotedString" ->
            "invalid TOML value, did you mean to use a quoted string?"

RECURSIVE write_keys(_, _, _)
\* for (i, k) in self.key.iter().enumerate(), i counted from 0
write_keys(key, i, f) ==
    IF i >= Len(key) THEN f
    ELSE write_keys(key, i + 1, (IF i > 0 THEN f \o "." ELSE f) \o key[i + 1])

\* the position written as it is stored, 0-based
DisplayZeroBased(e) ==
    LET f1 == Message(e)
        f2 == IF e.key # <<>> THEN write_keys(e.key, 0, f1 \o " for key " \o Tick) \o Tick
              ELSE f1
    IN IF e.line.some
       THEN f2 \o " at line " \o ToString(e.line.v) \o " column " \o ToString(e.col)
       ELSE f2

\* Display::fmt
Display(e) ==
    LET f1 == Message(e)
        f2 == IF e.key # <<>> THEN write_keys(e.key, 0, f1 \o " for key " \o Tick) \o Tick
              ELSE f1
    IN IF e.line.some
       THEN f2 \o " at line " \o ToString(e.line.v + 1)
               \o " column " \o ToString(e.col + 1)
       ELSE f2

\* the caller of from_str renders the error it was returned (to_string)
ErrorToString ==
    /\ pc = "done"
    /\ err.kind \notin {"none", "panic"}
    /\ ~rendered.some
    /\ rendered' = Some(Display(err))
    /\ UNCHANGED <<pc, input, script, tables, cur_table, doc, stack, reached,
                   result, err, num, consumer>>

\* the documents whose errors are rendered: those of a failing consumer and
\* the three-header document of tests/backcompat.rs
InitDisplay == InitConsumer \/ InitBackcompat

NextDisplay == NextConsumer \/ ErrorToString

SpecDisplay == InitDisplay /\ [][NextDisplay]_vars

\* the clause of the key path and the clause of the position
KeyClause(e) == IF e.key = <<>> THEN "" ELSE " for key " \o Tick \o Join(e.key) \o Tick

PositionClause(e) ==
    IF e.line.some
    THEN " at line " \o ToString(e.line.v + 1) \o " column " \o ToString(e.col + 1)
    ELSE ""

\* C14: the rendered text of an error is its message, then " for key " and
\* the quoted key path k1.k2...kn exactly when the key path is not empty,
\* then " at line L+1 column C+1"
\* exactly when a position is present, (L, C) being the stored 0-based
\* line and column
C14_RenderedText ==
    rendered.some =>
        rendered.v = Message(err) \o KeyClause(err) \o PositionClause(err)

\* the error of tests/backcompat.rs has been rendered, with a key and a
\* position: stored line 7 and column 8 are shown as line 8 column 9
C14_Witness ==
    /\ rendered = Some("redefinition of table 'dependencies' for key 'dependencies' at line 8 column 9")
    /\ err.line = Some(7)
    /\ err.col = 8

\* an error with neither key path nor position has been rendered: the
\* text is the message alone
C14_WitnessBare ==
    /\ rendered = Some("missing field")
    /\ err.key = <<>>
    /\ ~err.line.some

\* an error with a position and no key path has been rendered
C14_WitnessNoKey ==
    /\ rendered.some
    /\ err.key = <<>>
    /\ err.line.some

(***************************************************************************)
(* A consumer that reads the value of key `a` as an enum:                  *)
(* ValueDeserializer::deserialize_enum.  Only a string is handed to        *)
(* visit_enum (a unit variant of that name); every other value is refused  *)
(* before its pairs are looked at.  The EnumAccess implementation of       *)
(* InlineTableDeserializer (variant_seed, TableEnumDeserializer) is never  *)
(* constructed by deserialize_enum and so is not part of any run.          *)
(***************************************************************************)
EnumTree(variant) == [t |-> "enum", variant |-> variant]

\* E::type_name
type_name(v) ==
    CASE v.e = "String" -> "string"
      [] v.e = "Integer" -> "integer"
      [] v.e = "Array" -> "array"
      [] v.e = "InlineTable" -> "inline table"
      [] v.e = "DottedTable" -> "dotted table"

deserialize_enum(v) ==
    IF v.e = "String" THEN Ok(EnumTree(v.s))
    ELSE Err(from_kind(Some(v.start), "Wanted", <<"string", type_name(v)>>))

\* the values the key is assigned: strings, integers, an array and inline
\* tables of zero, one and two pairs whose payload is an empty table, an
\* integer or a table with a field
EnumPayloads ==
    {[e |-> "InlineTable", pairs |-> <<>>],
     [e |-> "Integer", i |-> 1],
     [e |-> "InlineTable", pairs |-> <<[key |-> <<"x">>, val |-> [e |-> "Integer", i |-> 1]]>>]}

EnumPairs == {[key |-> <<k>>, val |-> v] : k \in {"V", "W"}, v \in EnumPayloads}

EnumLiterals ==
    {[e |-> "String", s |-> "V"], [e |-> "String", s |-> "W"],
     [e |-> "Integer", i |-> 1],
     [e |-> "Array", pairs |-> <<[key |-> <<>>, val |-> [e |-> "String", s |-> "V"]]>>]}
    \cup {[e |-> "InlineTable", pairs |-> ps] :
            ps \in UNION {[1..n -> EnumPairs] : n \in 0..2}}

InitEnum ==
    /\ pc = "parse"
    /\ input = <<>>
    /\ script \in {<<[kind |-> "kv", indent |-> 0, key |-> <<"a">>, val |-> lit]>> :
                        lit \in EnumLiterals}
    /\ tables = <<>>
    /\ cur_table = EmptyTable
    /\ doc = <<>>
    /\ stack = <<>>
    /\ reached = {}
    /\ result = NoResult
    /\ err = NoError
    /\ num = NoNum
    /\ consumer = {}
    /\ rendered = None

\* MapVisitor::next_value_seed with a seed that asks for an enum
NextValueEnum ==
    /\ pc = "traverse"
    /\ ~Top.array
    /\ Top.pending.some
    /\ Top.next_value.some
    /\ LET p == Top.next_value.v
           r == deserialize_enum(p.value)
       IN IF r.ok
          THEN /\ stack' = [stack EXCEPT ![Len(stack)] =
                               [Top EXCEPT !.next_value = None,
                                           !.pending = None,
                                           !.acc = Append(@, <<p.key, r.v>>)]]
               /\ UNCHANGED <<pc, tables, result, err>>
          ELSE Fail(add_key_context(r.e, p.key), tables)
    /\ UNCHANGED <<input, script, cur_table, doc, reached, num, consumer, rendered>>

NextEnum == NumberLine \/ TablesEof \/ NextKey \/ NextValueEnum \/ ErrorToString

SpecEnum == InitEnum /\ [][NextEnum]_vars

\* the value of `a` as the parser left it, and the end of the run
EnumValue == doc[1].values.v[1].value

EnumDone == pc = "done" /\ doc # <<>>

\* C15: an inline table of exactly one pair is consumed as an enum, its key
\* the variant and its value the payload (refused only when a unit variant
\* meets a payload that is not an empty table); an inline table of zero or
\* of more than one pair is refused
C15_OnePairTableIsVariant ==
    EnumDone /\ EnumValue.e = "InlineTable" =>
        IF Len(EnumValue.pairs) = 1
        THEN \/ /\ err.kind = "none"
                /\ Get(result, "a") = EnumTree(EnumValue.pairs[1].key)
             \/ /\ err.kind = "ExpectedEmptyTable"
                /\ EnumValue.pairs[1].value.e = "InlineTable"
                /\ EnumValue.pairs[1].value.pairs # <<>>
        ELSE err.kind # "none"

\* the table `{V = {}}`, one pair with an empty table for its value, was
\* consumed as an enum and refused, a string being wanted
C15_Witness ==
    /\ EnumDone
    /\ EnumValue.e = "InlineTable"
    /\ Len(EnumValue.pairs) = 1
    /\ EnumValue.pairs[1].key = "V"
    /\ EnumValue.pairs[1].value.e = "InlineTable"
    /\ EnumValue.pairs[1].value.pairs = <<>>
    /\ err.kind = "Wanted"
    /\ err.name = <<"string", "inline table">>
    /\ err.key = <<"a">>

\* a string consumed as an enum selects the unit variant of its name
C15_WitnessString ==
    /\ EnumDone
    /\ EnumValue.e = "String"
    /\ err.kind = "none"
    /\ Get(result, "a") = EnumTree(EnumValue.s)

(***************************************************************************)
(* Integer literals of every radix: an optional sign, an optional radix    *)
(* prefix and a run of digits and underscores.  A `+` is a token of its    *)
(* own (Token::Plus, then number_leading_plus on the Keylike after it); a  *)
(* `-` is the first character of the Keylike token.                        *)
(***************************************************************************)
MaxDigits == 4

RadixDigitChars == {"0", "1", "7", "F", "_"}

Signs == {"", "+", "-"}

\* the letter of the prefix, "" for a base-10 literal
PrefixLetters == {"", "x", "o", "b"}

RadixOf(letter) ==
    CASE letter = "x" -> 16 [] letter = "o" -> 8 [] letter = "b" -> 2
      [] letter = "" -> 10

RadixLiteral(sign, letter, digits) ==
    [s |-> (IF sign = "-" THEN <<"-">> ELSE <<>>)
           \o (IF letter = "" THEN <<>> ELSE <<"0", letter>>) \o digits,
     plus |-> sign = "+",
     sign |-> sign, letter |-> letter, digits |-> digits]

InitRadix ==
    /\ pc = "parse"
    /\ input = <<>>
    /\ num \in {RadixLiteral(sign, letter, digits) :
                    sign \in Signs, letter \in PrefixLetters,
                    digits \in UNION {[1..n -> RadixDigitChars] : n \in 1..MaxDigits}}
    /\ script = NumberScript(num)
    /\ tables = <<>>
    /\ cur_table = EmptyTable
    /\ doc = <<>>
    /\ stack = <<>>
    /\ reached = {}
    /\ result = NoResult
    /\ err = NoError
    /\ consumer = {}
    /\ rendered = None

NextRadix == NumberLine \/ TablesEof \/ NextKey \/ NextValue

SpecRadix == InitRadix /\ [][NextRadix]_vars

\* the literal carries a radix prefix
Prefixed == num.letter # ""

\* every character of the run is a digit of the literal's radix
AllDigits(ds, radix) ==
    \A n \in 1..Len(ds) :
        \/ ds[n] \in {"0", "1"}
        \/ ds[n] = "7" /\ radix >= 8
        \/ ds[n] = "F" /\ radix = 16

RECURSIVE RunValue(_, _)
\* what a run of digits amounts to in its radix
RunValue(ds, radix) ==
    IF ds = <<>> THEN 0
    ELSE LET c == ds[Len(ds)]
             d == CASE c = "0" -> 0 [] c = "1" -> 1 [] c = "7" -> 7 [] c = "F" -> 15
         IN RunValue(SubSeq(ds, 1, Len(ds) - 1), radix) * radix + d

\* C17: a radix-prefixed integer may not carry a sign: `+0x10` and `-0x10`,
\* and likewise with the octal and binary prefixes, are NumberInvalid
C17_SignedRadixInvalid ==
    script = <<>> /\ Prefixed /\ num.sign # "" => Rejected

\* `+0x10` has been read and was accepted as the integer 16
C17_Witness ==
    /\ num = RadixLiteral("+", "x", <<"1", "0">>)
    /\ pc = "done"
    /\ Accepted
    /\ result = MapTree(<<<<"a", IntTree(16)>>>>)

\* `-0x10` has been read and was refused
C17_WitnessMinus ==
    /\ num = RadixLiteral("-", "x", <<"1", "0">>)
    /\ Rejected

\* the run starts with `0` and goes on with a further digit
RunZeroThenDigit(ds) == Len(ds) >= 2 /\ ds[1] = "0" /\ ds[2] # "_"

\* an unsigned radix-prefixed literal, all of whose characters are digits of
\* its radix, with a leading zero
LeadingZeroRadix ==
    /\ script = <<>>
    /\ Prefixed
    /\ num.sign = ""
    /\ AllDigits(num.digits, RadixOf(num.letter))
    /\ RunZeroThenDigit(num.digits)

\* C18 as stated: a radix-prefixed literal whose digit run starts with `0`
\* followed by a further digit (`0x00FF`, `0o07`, `0b01`) is NumberInvalid
C18_RadixLeadingZeroInvalid == LeadingZeroRadix => Rejected

\* C18, amended: a radix-prefixed literal may have leading zeros; `0x00FF`,
\* `0o07` and `0b01` are accepted with the value of their digits (255, 7
\* and 1)
C18_RadixLeadingZeroAccepted ==
    LeadingZeroRadix =>
        /\ Accepted
        /\ NumValue = RunValue(num.digits, RadixOf(num.letter))

\* `0x00FF` has been read and was accepted as 255
C18_Witness ==
    /\ num = RadixLiteral("", "x", <<"0", "0", "F", "F">>)
    /\ LeadingZeroRadix
    /\ pc = "done"
    /\ result = MapTree(<<<<"a", IntTree(255)>>>>)

\* the run begins or ends with an underscore, or holds two in a row
BadUnderscore(ds) ==
    \/ ds[1] = "_"
    \/ ds[Len(ds)] = "_"
    \/ \E n \in 1..(Len(ds) - 1) : ds[n] = "_" /\ ds[n + 1] = "_"

\* the run without its underscores
RECURSIVE Stripped(_)
Stripped(ds) ==
    IF ds = <<>> THEN <<>>
    ELSE IF Head(ds) = "_" THEN Stripped(Tail(ds))
    ELSE <<Head(ds)>> \o Stripped(Tail(ds))

\* the run holds digits of the literal's radix and underscores only
IsRun == AllDigits(Stripped(num.digits), RadixOf(num.letter))

\* an unsigned base-10 literal that starts with an underscore: parse_keylike
\* does not take it for a number
BareUnderscoreFirst == num.letter = "" /\ num.sign = "" /\ num.digits[1] = "_"

C19_WitnessRepeated ==
    num = RadixLiteral("", "o", <<"7", "_", "_", "7">>) /\ Rejected

C19_WitnessTrailing ==
    num = RadixLiteral("", "b", <<"1", "_">>) /\ Rejected

C19_WitnessLeading ==
    num = RadixLiteral("-", "", <<"_", "1">>) /\ Rejected

C19_WitnessBetween ==
    /\ num = RadixLiteral("", "x", <<"F", "_", "F">>)
    /\ pc = "done"
    /\ result = MapTree(<<<<"a", IntTree(255)>>>>)

Rep(c, n) == [k \in 1..n |-> c]

DecimalChars == {"0", "1", "2", "3", "4", "5", "6", "7", "8", "9"}

DecBase ==
    <<"9", "2", "2", "3", "3", "7", "2", "0", "3",
      "6", "8", "5", "4", "7", "7", "5", "8", "0">>

WideLiterals ==
    {RadixLiteral(sign, "", DecBase \o <<d>>) : sign \in Signs, d \in DecimalChars}
    \cup {RadixLiteral(sign, "", DecBase \o <<d, "0">>) :
                sign \in Signs, d \in DecimalChars}
    \cup {RadixLiteral("", "x", <<"7">> \o Rep(c, 14) \o <<d>>) :
                c \in {"F", "f"}, d \in {"0", "9", "E", "F"}}
    \cup {RadixLiteral("", "x", ds) :
                ds \in {<<"8">> \o Rep("0", 15), Rep("F", 16), <<"1">> \o Rep("0", 16)}}
    \cup {RadixLiteral("", "o", ds) :
                ds \in {Rep("7", 21), Rep("7", 20) \o <<"0">>, <<"1">> \o Rep("0", 21)}}
    \cup {RadixLiteral("", "b", ds) :
                ds \in {Rep("1", 63), Rep("1", 62) \o <<"0">>, <<"1">> \o Rep("0", 63),
                        Rep("1", 64)}}

InitWide ==
    /\ pc = "parse"
    /\ input = <<>>
    /\ num \in WideLiterals
    /\ script = NumberScript(num)
    /\ tables = <<>>
    /\ cur_table = EmptyTable
    /\ doc = <<>>
    /\ stack = <<>>
    /\ reached = {}
    /\ result = NoResult
    /\ err = NoError
    /\ consumer = {}
    /\ rendered = None

NextWide == NumberLine \/ TablesEof \/ NextKey \/ NextValue

SpecWide == InitWide /\ [][NextWide]_vars

\* the digits of the largest magnitude of an i64 in a radix: 2^63 - 1, and
\* 2^63 under a minus sign (base 10 only: no other radix takes a sign)
BoundDigits(radix, negative) ==
    CASE radix = 10 -> DecBase \o (IF negative THEN <<"8">> ELSE <<"7">>)
      [] radix = 16 -> <<"7">> \o Rep("F", 15)
      [] radix = 8 -> Rep("7", 21)
      [] radix = 2 -> Rep("1", 63)

\* the place of a digit among the digits, whatever its case
DigitPlace(c) ==
    IF \E n \in 1..16 : DigitChars[n] = c
    THEN CHOOSE n \in 1..16 : DigitChars[n] = c
    ELSE 10 + CHOOSE n \in 1..6 : UpperChars[n] = c

\* a run without leading zeros is at most another one: it is shorter, or as
\* long and not greater at the first place where they differ
AtMost(ds, bound) ==
    \/ Len(ds) < Len(bound)
    \/ /\ Len(ds) = Len(bound)
       /\ \A n \in 1..Len(ds) :
            (\A k \in 1..(n - 1) : ds[k] = bound[k]) =>
                DigitPlace(ds[n]) <= DigitPlace(bound[n])

\* the literal denotes an integer of the range of i64
InRange ==
    AtMost(num.digits, BoundDigits(RadixOf(num.letter), num.sign = "-"))

\* how far the magnitude of an in-range literal of the family lies below
\* 2^63 - 1: such a literal differs from the digits of 2^63 - 1 in its last
\* digit only
ShortOfMax ==
    LET bound == BoundDigits(RadixOf(num.letter), FALSE)
        n == Len(bound)
    IN DigitPlace(bound[n]) - DigitPlace(num.digits[n])

\* the i64 that is k below i64::MAX in magnitude (k = -1: the magnitude of
\* i64::MIN), under the sign of the literal
WideValue(k) ==
    [negative |-> num.sign = "-",
     limbs |-> IF k = -1 THEN <<0, 0, 0, Limb \div 2>>
               ELSE <<Limb - 1 - k, Limb - 1, Limb - 1, Limb \div 2 - 1>>]

\* C20: a literal of any radix whose value lies outside the range of i64 is
\* NumberInvalid, never a wrapped or saturated value; a literal inside the
\* range, the two bounds -9223372036854775808 and 9223372036854775807 (or
\* 0x7FFFFFFFFFFFFFFF) included, is accepted with its value
C20_I64Range ==
    script = <<>> =>
        IF InRange
        THEN Accepted /\ NumValue = WideValue(ShortOfMax)
        ELSE Rejected

\* 9223372036854775807 has been read and delivered as i64::MAX
C20_Witness ==
    /\ num = RadixLiteral("", "", DecBase \o <<"7">>)
    /\ pc = "done"
    /\ result = MapTree(<<<<"a", IntTree([negative |-> FALSE,
                    limbs |-> <<Limb - 1, Limb - 1, Limb - 1, Limb \div 2 - 1>>])>>>>)

\* -9223372036854775808 has been read and delivered as i64::MIN
C20_WitnessMin ==
    /\ num = RadixLiteral("-", "", DecBase \o <<"8">>)
    /\ pc = "done"
    /\ result = MapTree(<<<<"a", IntTree([negative |-> TRUE,
                    limbs |-> <<0, 0, 0, Limb \div 2>>])>>>>)

\* 0x7FFFFFFFFFFFFFFF has been read and delivered as i64::MAX
C20_WitnessHex ==
    /\ num = RadixLiteral("", "x", <<"7">> \o Rep("F", 15))
    /\ pc = "done"
    /\ result = MapTree(<<<<"a", IntTree([negative |-> FALSE,
                    limbs |-> <<Limb - 1, Limb - 1, Limb - 1, Limb \div 2 - 1>>])>>>>)

\* 9223372036854775808, 0xFFFFFFFFFFFFFFFF and -9223372036854775809 have
\* been refused
C20_WitnessOverflow ==
    /\ num \in {RadixLiteral("", "", DecBase \o <<"8">>),
                RadixLiteral("", "x", Rep("F", 16)),
                RadixLiteral("-", "", DecBase \o <<"9">>)}
    /\ Rejected

(***************************************************************************)
(* The range of an element of an array of tables.  The frame of an element *)
(* stands directly above the frame of its sequence (next_element_seed      *)
(* pushes it), the frame of a sub-table or of a sequence directly above    *)
(* the map whose next_value_seed made it.                                  *)
(***************************************************************************)
\* frame n was made by next_element_seed of the frame below it
IsElement(n) == n >= 2 /\ stack[n - 1].array

\* the array fragments of lo..hi-1 whose header is that of fragment c
SameHeaderArrays(fr, c, lo, hi) == Elements(fr, HeaderKeys(Tbl(fr, c)), lo, hi)

\* the first `[[h]]` after fragment c with the header h of c, looked for
\* up to the end of the document, or the number of fragments
NextInDocument(fr, c) ==
    LET later == SameHeaderArrays(fr, c, c + 1, Len(fr))
    IN IF later = {} THEN Len(fr) ELSE Least(later)

\* the first `[[h]]` after fragment c and before hi, or hi
NextBelow(fr, c, hi) ==
    LET later == SameHeaderArrays(fr, c, c + 1, hi)
    IN IF later = {} THEN hi ELSE Least(later)

\* C21 as stated: the element of a sequence that starts at fragment
\* cur_parent is scoped to [cur_parent, next), next being the first later
\* fragment of the document with the identical header that is an array,
\* or the number of fragments when there is none; nested arrays included.
C21_ScopedToDocumentEnd ==
    \A n \in 1..Len(stack) :
        IsElement(n) =>
            /\ stack[n].cur_parent = stack[n - 1].cur_parent
            /\ stack[n].max = NextInDocument(doc, stack[n].cur_parent)

\* C21 as amended: next is looked for below the bound max of the sequence
\* only and is that bound when no `[[h]]` stands there; the bound of a
\* sequence is the one of the map it was found in, which is the number of
\* fragments for the root and the end of the element for an element.
C21_ScopedToEnclosingBound ==
    /\ \A n \in 1..Len(stack) :
          IsElement(n) =>
             /\ stack[n].cur_parent = stack[n - 1].cur_parent
             /\ stack[n].max = NextBelow(doc, stack[n].cur_parent, stack[n - 1].max)
    /\ \A n \in 1..Len(stack) :
          ~IsElement(n) =>
             stack[n].max = IF n = 1 THEN Len(doc) ELSE stack[n - 1].max

\* an element of an array nested in an element of another array: its range
\* ends with the enclosing element, before the end of the document and
\* before a later `[[h]]` of the next enclosing element
C21_Witness ==
    /\ pc = "traverse"
    /\ \E n \in 1..Len(stack) :
          /\ IsElement(n)
          /\ \E m \in 1..(n - 2) : IsElement(m)
          /\ stack[n].max < Len(doc)
          /\ SameHeaderArrays(doc, stack[n].cur_parent, stack[n].max, Len(doc)) # {}
          /\ SameHeaderArrays(doc, stack[n].cur_parent,
                              stack[n].cur_parent + 1, stack[n].max) = {}

\* an element of an array at the top of the document, the last of its
\* sequence: its range ends with the document
C21_WitnessTop ==
    /\ pc = "traverse"
    /\ \E n \in 1..Len(stack) :
          /\ IsElement(n)
          /\ \A m \in 1..(n - 2) : ~IsElement(m)
          /\ stack[n].max = Len(doc)
          /\ stack[n].cur_parent > 0

(***************************************************************************)
(* The taking of the values of a fragment (Option::take in next_key_seed   *)
(* and next_element_seed), seen as a step of the traversal.                *)
(***************************************************************************)
\* the fragments whose values the step takes
Took == {i \in Frags : Tbl(tables, i).values.some /\ ~Tbl(tables', i).values.some}

\* the pairs that are in no fragment any more and that the consumer has not
\* been given yet: those the frames hold
Held(st) ==
    [n \in 1..Len(st) |->
        (IF st[n].next_value.some THEN <<st[n].next_value.v>> ELSE <<>>)
        \o st[n].values]

\* the values taken from fragment i went to the frame on top of the stack,
\* which was holding none: it holds them all, the first of them as the
\* pair whose key has just been delivered when next_key_seed took them
GivenToTop(i) ==
    /\ stack' # <<>>
    /\ Held(stack')[Len(stack')] = Tbl(tables, i).values.v
    /\ Len(stack') = Len(stack) => Held(stack)[Len(stack)] = <<>>
    /\ \A n \in 1..(Len(stack') - 1) : n <= Len(stack) /\ Held(stack')[n] = Held(stack)[n]

\* a step of the traversal takes the values of at most one fragment, hands
\* them whole to one frame, and never gives a fragment values back
TakeStep ==
    pc = "traverse" =>
        /\ Len(tables') = Len(tables)
        /\ \A i \in Frags : ~Tbl(tables, i).values.some => ~Tbl(tables', i).values.some
        /\ Cardinality(Took) <= 1
        /\ \A i \in Took : err'.kind = "none" => GivenToTop(i)
        /\ Took = {} /\ pc' = "traverse" =>
              \A n \in 1..Len(stack') :
                 n <= Len(stack) => Len(Held(stack')[n]) <= Len(Held(stack)[n])

\* a traversal that has ended without error has left no fragment with
\* its values
AllTaken ==
    Finished => /\ \A i \in Frags : ~Tbl(tables, i).values.some
                /\ Len(tables) = Len(doc)

\* C22: in a traversal that ends without error, with a consumer that
\* reads every key and every value, the values of every fragment are taken
\* exactly once: no step takes values that were taken before, what is
\* taken goes whole to one frame, and at the end no fragment is left with
\* its values.
C22_ValuesTakenExactlyOnce == []AllTaken /\ [][TakeStep]_vars

\* a finished traversal of a document with a plain table and an element
\* of an array, both with pairs and both taken
C22_Witness ==
    /\ Finished
    /\ Len(doc) >= 2
    /\ \A i \in Frags : doc[i + 1].values.v # <<>> /\ ~Tbl(tables, i).values.some
    /\ \E i \in Frags : doc[i + 1].array
    /\ \E i \in Frags : ~doc[i + 1].array /\ doc[i + 1].header # <<>>

(***************************************************************************)
(* Documents with headers of up to three segments, read by a consumer that *)
(* may return from visit_map or visit_seq before the map or the sequence   *)
(* is exhausted (between two pairs, or between two elements), as a serde   *)
(* Visitor is free to do.                                                  *)
(***************************************************************************)
MaxDeepLines == 4

DeepPaths == {<<"a">>, <<"b">>, <<"a", "b">>, <<"a", "b", "a">>}

DeepLines(n) ==
    {[kind |-> "table", indent |-> 0, array |-> a, header |-> h] :
        a \in BOOLEAN, h \in DeepPaths}
    \cup {[kind |-> "kv", indent |-> 0, key |-> <<k>>,
           val |-> [e |-> "Integer", i |-> n]] : k \in Keys}

\* the next line of a document with deep headers
DeepLine ==
    \E line \in DeepLines(Len(input) + 1) :
        /\ Len(input) < MaxDeepLines
        /\ script = <<>>
        /\ (TableLine(line) \/ KeyValueLine(line))
        /\ UNCHANGED script

\* the visitor returns what it has built so far without asking the access
\* on top of the stack for its next key or element
ConsumerLeaves ==
    /\ pc = "traverse"
    /\ ~Top.pending.some
    /\ Return(IF Top.array THEN SeqTree(Top.acc) ELSE MapTree(Top.acc), Top.max, tables)
    /\ UNCHANGED <<input, script, cur_table, doc, reached, num, consumer, rendered>>

NextLeave ==
    DeepLine \/ TablesEof \/ NextKey \/ NextValue \/ NextElement \/ ConsumerLeaves

SpecLeave == Init /\ [][NextLeave]_vars

\* cur_parent stands at a fragment whose header is at least depth long
ParentCovers(f) ==
    /\ f.cur_parent < Len(tables)
    /\ f.depth <= Len(Tbl(tables, f.cur_parent).header)

\* fragment i has a header longer than the depth of the frame, and its
\* segment at that depth is the key the frame delivered last
SegmentEmitted(f, i) ==
    /\ 0 <= i /\ i < Len(tables)
    /\ f.depth < Len(Tbl(tables, i).header)
    /\ Tbl(tables, i).header[f.depth + 1].key = f.pending.v

\* the index next_value_seed makes with cur: tables[cur] before it opens
\* the sub-table or the sequence (the frame is on top of the stack),
\* tables[cur - 1] in its map_err once it has (the frame is below)
CurCovers(n) ==
    LET f == stack[n]
    IN (~f.array /\ f.pending.some /\ ~f.next_value.some) =>
          SegmentEmitted(f, IF n = Len(stack) THEN f.cur ELSE f.cur - 1)

\* the fragment the next next_element_seed on the frame takes the values
\* of still has them
ElementHasValues(n) ==
    LET f == stack[n]
    IN (f.array /\ n = Len(stack) /\ f.cur_parent # f.max) =>
          /\ f.cur_parent < Len(tables)
          /\ Tbl(tables, f.cur_parent).values.some

NoPanic == err.kind # "panic"

\* C23 as stated: no assertion, expect or index access of the traversal
\* fails, and in every state of every visitor depth is at most the header
\* length of the fragment at cur_parent.
C23_DepthWithinParentAlways ==
    /\ NoPanic
    /\ pc = "traverse" =>
          \A n \in 1..Len(stack) :
             /\ stack[n].cur_parent < Len(tables) =>
                   stack[n].depth <= Len(Tbl(tables, stack[n].cur_parent).header)
             /\ CurCovers(n)
             /\ ElementHasValues(n)

\* C23 as amended: no assertion, expect or index access fails; while the
\* range of a visitor is not exhausted (cur_parent is not max, so that
\* cur_parent is used as an index) cur_parent stands at a fragment whose
\* header is at least depth long; next_value_seed indexes with cur a
\* fragment longer than depth that gave the delivered key; and the fragment
\* next_element_seed takes the values of still has them.
C23_NoPanic ==
    /\ NoPanic
    /\ pc = "traverse" =>
          \A n \in 1..Len(stack) :
             /\ stack[n].cur_parent # stack[n].max => ParentCovers(stack[n])
             /\ CurCovers(n)
             /\ ElementHasValues(n)

\* a visitor of the sequence `[[a.b.a]]` inside an element of `[[a]]`,
\* once its last element returned: cur_parent stands at the next `[[a]]`,
\* whose header is shorter than the depth of the visitor
C23_Witness ==
    /\ pc = "traverse"
    /\ NoPanic
    /\ \E n \in 1..Len(stack) :
          /\ stack[n].array
          /\ stack[n].cur_parent = stack[n].max
          /\ stack[n].cur_parent < Len(tables)
          /\ stack[n].depth > Len(Tbl(tables, stack[n].cur_parent).header)

\* a traversal that the consumer left early at some level has gone on in
\* the frame below and has ended without error
C23_WitnessLeft ==
    /\ Finished
    /\ \E i \in Frags : Tbl(tables, i).values.some

(***************************************************************************)
(* The lookup of next_key_seed on its own: any list of up to MaxFragments  *)
(* fragments, each with its values or without, and a visitor with any      *)
(* cur_parent, depth, cur and max.                                         *)
(***************************************************************************)
MaxFragments == 3

LookupHeaders == {<<>>, <<"a">>, <<"b">>, <<"a", "b">>}

LookupFragments ==
    {[at |-> 0, header |-> KeyParts(h, 1), values |-> v, array |-> FALSE] :
        h \in LookupHeaders, v \in {None, Some(<<>>)}}

InitLookup ==
    /\ pc = "lookup"
    /\ input = <<>>
    /\ script = <<>>
    /\ tables \in UNION {[1..n -> LookupFragments] : n \in 1..MaxFragments}
    /\ cur_table = EmptyTable
    /\ doc = tables
    /\ \E cur_parent \in 0..(Len(tables) - 1), cur, max \in 0..Len(tables) :
          \E depth \in 0..Len(Tbl(tables, cur_parent).header) :
             stack = <<[Frame(<<>>, depth, cur_parent, max, FALSE) EXCEPT !.cur = cur]>>
    /\ reached = {}
    /\ result = NoResult
    /\ err = NoError
    /\ num = NoNum
    /\ consumer = {}
    /\ rendered = None

\* the block `let next_table = { .. }` of next_key_seed: the fragment found
\* is recorded as selected
Lookup ==
    /\ pc = "lookup"
    /\ LET prefix_stripped == Prefix(HeaderKeys(Tbl(tables, Top.cur_parent)), Top.depth)
           nt == next_table(tables, prefix_stripped, Top.cur, Top.max)
       IN reached' = IF nt.some THEN {nt.v} ELSE {}
    /\ pc' = "done"
    /\ UNCHANGED <<input, script, tables, cur_table, doc, stack, result, err, num,
                   consumer, rendered>>

NextLookup == Lookup

SpecLookup == InitLookup /\ [][NextLookup]_vars

\* the fragments from cur on and below max whose header starts with the
\* prefix and whose values have not been taken
Candidates(ts, prefix, cur, max) ==
    {i \in 0..(Len(ts) - 1) :
        /\ cur <= i /\ i < max
        /\ HasPrefix(ts, i, prefix)
        /\ Tbl(ts, i).values.some}

\* the linear scan of the fragment list
LinearScan(ts, prefix, cur, max) ==
    LET C == Candidates(ts, prefix, cur, max)
    IN IF C = {} THEN None ELSE Some(Least(C))

\* the prefixes a lookup is made with, one of them the prefix of no header
LookupPrefixes == LookupHeaders \cup {<<"b", "a">>}

\* the prefix the visitor of the state looks up
TopPrefix == Prefix(HeaderKeys(Tbl(tables, Top.cur_parent)), Top.depth)

\* C24: for every fragment list, prefix, cur and max, the lookup through
\* the prefix index and the bisection from cur gives the least fragment i
\* with cur <= i < max whose header starts with the prefix and whose
\* values are not taken, and none exactly when there is no such fragment:
\* what a linear scan of the list gives.
C24_LookupIsLinearScan ==
    /\ pc = "lookup" =>
          \A prefix \in LookupPrefixes :
             next_table(tables, prefix, Top.cur, Top.max)
                = LinearScan(tables, prefix, Top.cur, Top.max)
    /\ pc = "done" =>
          LET scan == LinearScan(tables, TopPrefix, Top.cur, Top.max)
          IN reached = IF scan.some THEN {scan.v} ELSE {}

\* a lookup that went past a fragment with the prefix whose values were
\* taken and found a later one
C24_Witness ==
    /\ pc = "done"
    /\ \E i \in reached :
          \E j \in Top.cur..(i - 1) :
             HasPrefix(tables, j, TopPrefix) /\ ~Tbl(tables, j).values.some

\* a lookup that found none although a fragment with the prefix and with
\* its values stands at max or after it
C24_WitnessNone ==
    /\ pc = "done"
    /\ reached = {}
    /\ Top.cur < Top.max
    /\ Candidates(tables, TopPrefix, Top.max, Len(tables)) # {}

(***************************************************************************)
(* Deserializer::array on the tokens of the lexer.  The value of the line  *)
(* `a = ...` is a sequence of tokens: the brackets, the comma, a run of    *)
(* whitespace ("ws"), a newline ("nl"), a comment with the newline that    *)
(* ends it ("#") and the Keylike `1`.  The cursor of the lexer is the      *)
(* index i of the next token; past the last token it stands at the end of  *)
(* the input.                                                              *)
(***************************************************************************)
MaxTokens == 5

ArrayTokens == {"[", "]", ",", "ws", "nl", "#", "1"}

\* the bytes of a token
TokLen(t) == IF t = "#" THEN 2 ELSE 1

RECURSIVE TokensLen(_)
TokensLen(ts) == IF ts = <<>> THEN 0 ELSE TokLen(Head(ts)) + TokensLen(Tail(ts))

\* tokens.current() with the cursor at token i of a value that starts at `at`
TokenAt(ts, i, at) == at + TokensLen(SubSeq(ts, 1, i - 1))

RECURSIVE TokenLines(_, _)
\* the lengths of the lines the tokens make, the first one `len` bytes
\* long before them
TokenLines(len, ts) ==
    IF ts = <<>> THEN <<len>>
    ELSE IF Head(ts) = "nl" THEN <<len>> \o TokenLines(0, Tail(ts))
    ELSE IF Head(ts) = "#" THEN <<len + 1>> \o TokenLines(0, Tail(ts))
    ELSE TokenLines(len + 1, Tail(ts))

\* Token::describe
describe(t) ==
    CASE t = "[" -> "a left bracket"
      [] t = "]" -> "a right bracket"
      [] t = "," -> "a comma"
      [] t = "ws" -> "whitespace"
      [] t = "nl" -> "a newline"
      [] t = "#" -> "a comment"
      [] t = "1" -> "an identifier"

\* tokens.peek(): the token at the cursor, or None at the end of the input
peek(ts, i) == IF i <= Len(ts) THEN Some(ts[i]) ELSE None

\* tokens.eat(expected): the token at the cursor is the expected one (the
\* cursor then moves past it)
eat(ts, i, expected) == peek(ts, i) = Some(expected)

\* tokens.eat_comment(): a comment and the newline that ends it
eat_comment(ts, i) == eat(ts, i, "#")

RECURSIVE eat_whitespace(_, _)
\* tokens.eat_whitespace(): the cursor after the whitespace at it
eat_whitespace(ts, i) ==
    IF eat(ts, i, "ws") THEN eat_whitespace(ts, i + 1) ELSE i

\* tokens.expect_spanned(expected): the error of a cursor that stands at
\* another token, or at the end of the input
wanted(lens, ts, i, at, expected) ==
    error(lens, TokenAt(ts, i, at), "Wanted",
          <<describe(expected), IF i <= Len(ts) THEN describe(ts[i]) ELSE "eof">>)

RECURSIVE intermediate(_, _)
\* the closure `intermediate` of array: whitespace, newlines and comments
intermediate(ts, i) ==
    LET j == eat_whitespace(ts, i)
    IN IF eat(ts, j, "nl") \/ eat_comment(ts, j) THEN intermediate(ts, j + 1) ELSE j

\* the loop of array going on whether or not a comma follows the value
comma_not_needed(ts, i) ==
    [more |-> TRUE, next |-> IF eat(ts, i, ",") THEN i + 1 ELSE i]

\* array: `if !self.eat(Token::Comma)? { break; }`
comma_eaten(ts, i) ==
    IF eat(ts, i, ",") THEN [more |-> TRUE, next |-> i + 1]
    ELSE [more |-> FALSE, next |-> i]

RECURSIVE value_token(_, _, _, _)
RECURSIVE array_loop(_, _, _, _, _)
\* Deserializer::value with the cursor at token i: the Value and the cursor
\* after it, or the error
value_token(lens, ts, i, at) ==
    IF i > Len(ts) THEN Err(error(lens, TokenAt(ts, i, at), "UnexpectedEof", ""))
    ELSE IF ts[i] = "1"
    THEN Ok([value |-> [e |-> "Integer", i |-> 1, start |-> TokenAt(ts, i, at)],
             next |-> i + 1])
    ELSE IF ts[i] = "["
    THEN LET r == array_loop(lens, ts, i + 1, at, <<>>)
         IN IF r.ok
            THEN Ok([value |-> [e |-> "Array", elems |-> r.v.ret,
                                start |-> TokenAt(ts, i, at)],
                     next |-> r.v.next])
            ELSE r
    ELSE Err(error(lens, TokenAt(ts, i, at), "Wanted", <<"a value", describe(ts[i])>>))
\* Deserializer::array from the top of its loop, with the values read so
\* far: the values and the cursor after the `]`, or the error
array_loop(lens, ts, i, at, ret) ==
    LET i1 == intermediate(ts, i)
    IN IF eat(ts, i1, "]") THEN Ok([ret |-> ret, next |-> i1 + 1])
       ELSE LET v == value_token(lens, ts, i1, at)
            IN IF ~v.ok THEN v
               ELSE LET c == comma_eaten(ts, intermediate(ts, v.v.next))
                    IN IF c.more
                       THEN array_loop(lens, ts, c.next, at, Append(ret, v.v.value))
                       ELSE LET i3 == intermediate(ts, c.next)
                            IN IF eat(ts, i3, "]")
                               THEN Ok([ret |-> Append(ret, v.v.value), next |-> i3 + 1])
                               ELSE Err(wanted(lens, ts, i3, at, "]"))

\* Deserializer::key_value from the value on: the value, then whitespace
\* and a comment or the end of the line
key_value(lens, ts, at) ==
    LET v == value_token(lens, ts, 1, at)
    IN IF ~v.ok THEN v
       ELSE LET j == eat_whitespace(ts, v.v.next)
            IN IF eat_comment(ts, j) \/ eat(ts, j, "nl") \/ j > Len(ts)
               THEN Ok(v.v.value)
               ELSE Err(wanted(lens, ts, j, at, "nl"))

\* the brackets open after token i
Depth(ts, i) ==
    Cardinality({n \in 1..i : ts[n] = "["}) - Cardinality({n \in 1..i : ts[n] = "]"})

\* the value and the line end together: no token stands after a newline
\* or a comment that is outside every bracket
OneLine(ts) ==
    \A i \in 1..(Len(ts) - 1) : ts[i] \in {"nl", "#"} => Depth(ts, i) > 0

ArrayLiterals ==
    {ts \in {<<"[">> \o rest : rest \in UNION {[1..n -> ArrayTokens] : n \in 1..MaxTokens}} :
        OneLine(ts)}

InitArray ==
    /\ pc = "parse"
    /\ input = <<>>
    /\ num \in [s : ArrayLiterals, plus : {FALSE}]
    /\ script = <<[kind |-> "kv", indent |-> 0, key |-> <<"a">>,
                   val |-> [e |-> "Tokens", s |-> num.s]]>>
    /\ tables = <<>>
    /\ cur_table = EmptyTable
    /\ doc = <<>>
    /\ stack = <<>>
    /\ reached = {}
    /\ result = NoResult
    /\ err = NoError
    /\ consumer = {}
    /\ rendered = None

\* Line::KeyValue for a line whose value is given by its tokens
ArrayLine ==
    /\ pc = "parse"
    /\ script # <<>>
    /\ LET line == Head(script)
           at == InputLen(input)
           vat == at + PathLen(line.key) + 3
           lens == input \o TokenLines(PathLen(line.key) + 3, line.val.s)
           v == key_value(lens, line.val.s, vat)
           r == add_dotted_key(lens, KeyParts(line.key, at), v.v, <<>>)
       IN /\ input' = lens
          /\ IF ~v.ok
             THEN /\ pc' = "done"
                  /\ err' = v.e
                  /\ UNCHANGED cur_table
             ELSE /\ cur_table' = [cur_table EXCEPT !.values = Some(r.v)]
                  /\ UNCHANGED <<pc, err>>
    /\ script' = Tail(script)
    /\ UNCHANGED <<tables, doc, stack, reached, result, num, consumer, rendered>>

NextArray == ArrayLine \/ TablesEof \/ NextKey \/ NextValue

SpecArray == InitArray /\ [][NextArray]_vars

(***************************************************************************)
(* The arrays of the grammar, recognised without the parser: whitespace,   *)
(* newlines and comments are dropped, and an innermost `[`..`]` whose      *)
(* content is empty or is values and commas in turn, starting with a       *)
(* value, is replaced by a value until none is left.                       *)
(***************************************************************************)
RECURSIVE Significant(_)
Significant(ts) ==
    IF ts = <<>> THEN <<>>
    ELSE (IF Head(ts) \in {"ws", "nl", "#"} THEN <<>> ELSE <<Head(ts)>>)
         \o Significant(Tail(ts))

\* values separated by single commas, with at most one comma at the end
Separated(c) == \A n \in 1..Len(c) : c[n] = IF n % 2 = 1 THEN "1" ELSE ","

\* the innermost well-formed arrays of s: their first and last index
Innermost(s) ==
    {p \in (1..Len(s)) \X (1..Len(s)) :
        /\ p[1] < p[2]
        /\ s[p[1]] = "[" /\ s[p[2]] = "]"
        /\ Separated(SubSeq(s, p[1] + 1, p[2] - 1))}

RECURSIVE Reduced(_)
Reduced(s) ==
    IF Innermost(s) = {} THEN s
    ELSE LET p == CHOOSE q \in Innermost(s) : TRUE
         IN Reduced(SubSeq(s, 1, p[1] - 1) \o <<"1">> \o SubSeq(s, p[2] + 1, Len(s)))

IsArrayValue(ts) == ts # <<>> /\ Head(ts) = "[" /\ Reduced(Significant(ts)) = <<"1">>

\* what may follow the value on its line: whitespace, then a comment, a
\* newline or nothing
LineRest(ts) ==
    \A n \in 1..Len(ts) : ts[n] = "ws" \/ (n = Len(ts) /\ ts[n] \in {"nl", "#"})

\* the tokens of the literal are an array of the grammar and the rest of
\* its line
ArrayOnLine(ts) ==
    \E k \in 1..Len(ts) :
        IsArrayValue(SubSeq(ts, 1, k)) /\ LineRest(SubSeq(ts, k + 1, Len(ts)))

\* the values of the outermost array among the tokens: the commas inside
\* no other bracket, and one more unless the last of them is trailing
RECURSIVE TopValues(_, _)
TopValues(s, depth) ==
    IF s = <<>> THEN 0
    ELSE LET d == depth + (IF Head(s) = "[" THEN 1 ELSE IF Head(s) = "]" THEN -1 ELSE 0)
         IN (IF (Head(s) = "1" /\ depth = 1) \/ (Head(s) = "[" /\ depth = 1)
             THEN 1 ELSE 0) + TopValues(Tail(s), d)

\* the array the fragment holds for the key `a`
ArrayValue == CurPairs[1].value

\* C25: the token sequences accepted as an array value are exactly `[`,
\* zero or more values separated by single commas, at most one trailing
\* comma, `]`, with any whitespace, newlines and comments between two of
\* these tokens; a leading comma, two adjacent commas and two values with
\* no comma between them are rejected.  An accepted array holds its
\* values in order, one element for each.
C25_ArrayGrammar ==
    script = <<>> =>
        /\ err.kind = "none" <=> ArrayOnLine(num.s)
        /\ (err.kind = "none" /\ pc = "parse") =>
              /\ ArrayValue.e = "Array"
              /\ Len(ArrayValue.elems) = TopValues(Significant(num.s), 0)

\* `[1,` newline `]` has been read as an array of one value
C25_Witness ==
    /\ pc = "done"
    /\ err.kind = "none"
    /\ Significant(num.s) = <<"[", "1", ",", "]">>
    /\ \E j \in 1..(Len(num.s) - 1) : num.s[j] \in {"nl", "#"}
    /\ result = MapTree(<<<<"a", SeqTree(<<IntTree(1)>>)>>>>)

\* `[[],1]` has been read as an array of an empty array and a value
C25_WitnessNested ==
    /\ pc = "done"
    /\ num.s = <<"[", "[", "]", ",", "1", "]">>
    /\ result = MapTree(<<<<"a", SeqTree(<<SeqTree(<<>>), IntTree(1)>>)>>>>)

\* a leading comma, two adjacent commas and two values without a comma
\* have been read and refused
C25_WitnessRejected ==
    /\ pc = "done"
    /\ err.kind = "Wanted"
    /\ Significant(num.s) \in {<<"[", ",", "1", "]">>, <<"[", "1", ",", ",", "]">>,
                               <<"[", "1", "1", "]">>}

(***************************************************************************)
(* to_linecol on the bytes of a document.  The document is a sequence of   *)
(* bytes, "nl" the newline and "a" any other byte, that may or may not end *)
(* with a newline; an error is created at any offset of it.                *)
(***************************************************************************)
MaxBytes == 5

Bytes == {"nl", "a"}

Documents == UNION {[1..n -> Bytes] : n \in 0..MaxBytes}

RECURSIVE split(_, _)
\* str::split('\n'): the lengths of the pieces between the newlines, the
\* first one `len` bytes long before the bytes given
split(bytes, len) ==
    IF bytes = <<>> THEN <<len>>
    ELSE IF Head(bytes) = "nl" THEN <<len>> \o split(Tail(bytes), 0)
    ELSE split(Tail(bytes), len + 1)

\* str::split_terminator('\n'): the pieces of split, without the last one
\* when it is empty
split_terminator(bytes) ==
    LET pieces == split(bytes, 0)
    IN IF pieces[Len(pieces)] = 0 THEN SubSeq(pieces, 1, Len(pieces) - 1)
       ELSE pieces

InitLineCol ==
    /\ pc = "parse"
    /\ num \in [s : Documents, plus : {FALSE}]
    /\ input = split_terminator(num.s)
    /\ script = <<>>
    /\ tables = <<>>
    /\ cur_table = EmptyTable
    /\ doc = <<>>
    /\ stack = <<>>
    /\ reached = {}
    /\ result = NoResult
    /\ err = NoError
    /\ consumer = {}
    /\ rendered = None

\* Deserializer::error at an offset of the document
ErrorAt ==
    /\ pc = "parse"
    /\ \E offset \in 0..Len(num.s), kind \in {"NumberInvalid", "UnquotedString"} :
          err' = error(input, offset, kind, "")
    /\ pc' = "done"
    /\ UNCHANGED <<input, script, tables, cur_table, doc, stack, reached, result,
                   num, consumer, rendered>>

NextLineCol == ErrorAt

SpecLineCol == InitLineCol /\ [][NextLineCol]_vars

\* the newline bytes before offset o, by their 1-based index
NewlinesBefore(bytes, o) == {n \in 1..o : bytes[n] = "nl"}

\* the offset just after the last newline before offset o
LineStart(bytes, o) ==
    IF NewlinesBefore(bytes, o) = {} THEN 0
    ELSE CHOOSE n \in NewlinesBefore(bytes, o) : \A k \in NewlinesBefore(bytes, o) : k <= n

\* C26: for every document and every byte offset o with 0 <= o <= document
\* length, to_linecol(o) is (the number of newline bytes before o, o minus
\* the offset just after the last newline before o), both 0-based, also
\* for o equal to the document length, whether the document ends with a
\* newline or not.
C26_LineColOfOffset ==
    pc = "done" =>
        /\ err.line = Some(Cardinality(NewlinesBefore(num.s, err.at.v)))
        /\ err.col = err.at.v - LineStart(num.s, err.at.v)

\* an error at the end of a document of several lines that ends with a
\* newline
C26_Witness ==
    /\ pc = "done"
    /\ err.at = Some(Len(num.s))
    /\ Len(num.s) >= 3
    /\ num.s[Len(num.s)] = "nl"
    /\ Cardinality(NewlinesBefore(num.s, Len(num.s))) >= 2

\* an error at the end of a document of several lines that does not end
\* with a newline
C26_WitnessNoNewline ==
    /\ pc = "done"
    /\ err.at = Some(Len(num.s))
    /\ Len(num.s) >= 3
    /\ num.s[Len(num.s)] = "a"
    /\ err.line = Some(1)
    /\ err.col = 2

\* an error at the offset of a newline in the middle of the document
C26_WitnessAtNewline ==
    /\ pc = "done"
    /\ err.at.v < Len(num.s)
    /\ num.s[err.at.v + 1] = "nl"
    /\ err.col > 0
    /\ err.line = Some(1)

(***************************************************************************)
(* Termination of the traversal.                                           *)
(***************************************************************************)
\* the fragments whose values a call of next_key_seed on the top frame
\* takes, and the fragments it selects
KeyCall == next_key_seed(input, Top, tables)

TakenByKeyCall ==
    {i \in 0..(Len(tables) - 1) : Tbl(tables, i).values.some /\ ~Tbl(KeyCall.ts, i).values.some}

\* every pass of the loop that selected a fragment took its values, which
\* were there, except the pass that returned: the last one
PassesTakeOrReturn ==
    (pc = "traverse" /\ ~Top.array /\ ~Top.pending.some) =>
        /\ TakenByKeyCall \subseteq KeyCall.seen
        /\ \A i \in KeyCall.seen \ TakenByKeyCall : \A j \in KeyCall.seen : j <= i
        /\ KeyCall.r = "key" =>
              \/ KeyCall.f.next_value.some
              \/ KeyCall.seen \ TakenByKeyCall # {}

\* next_element_seed hands out an element that ends at an index strictly
\* larger than cur_parent and at most max, and moves cur_parent there
\* when the element returns
ElementStep ==
    /\ (pc = "traverse" /\ Top.array /\ Len(stack') = Len(stack) + 1) =>
          /\ stack'[Len(stack')].max > Top.cur_parent
          /\ stack'[Len(stack')].max <= Top.max
    /\ (pc = "traverse" /\ pc' = "traverse" /\ Len(stack) >= 2
            /\ Len(stack') = Len(stack) - 1 /\ stack[Len(stack) - 1].array) =>
          /\ stack'[Len(stack')].cur_parent = Top.max
          /\ stack'[Len(stack')].cur_parent > stack[Len(stack) - 1].cur_parent
          /\ stack'[Len(stack')].cur_parent <= stack'[Len(stack')].max

\* C27: for every finite fragment list and every consumer that follows
\* the key/value protocol the traversal terminates: each pass of the
\* next_key loop either returns or takes the values of a fragment that
\* had not been consumed, and each next_element call moves cur_parent to
\* a strictly larger index that is at most max, so a sequence ends after
\* finitely many elements.  Termination is stated without any fairness:
\* no run takes infinitely many steps of the traversal.
C27_TraversalTerminates ==
    /\ []PassesTakeOrReturn
    /\ [][ElementStep]_vars
    /\ <>[][pc # "traverse"]_vars

\* a document with an array of two elements and a plain table has been
\* traversed to its end: next_key_seed took several fragments and
\* next_element_seed handed out both elements
C27_Witness ==
    /\ Finished
    /\ err.kind = "none"
    /\ \E i, j, k \in 1..Len(doc) :
          /\ i < j
          /\ doc[i].array /\ doc[j].array /\ HeaderKeys(doc[i]) = HeaderKeys(doc[j])
          /\ ~doc[k].array /\ doc[k].values.some
    /\ \A i \in 1..Len(tables) : ~tables[i].values.some

(***************************************************************************)
(* A plain table and an array of tables under one header.                  *)
(***************************************************************************)
\* fragments i < j of one scope carry the same header, one of them as
\* `[h]` and the other as `[[h]]`
Mixed(fr, i, j) ==
    /\ i < j
    /\ Tbl(fr, i).array # Tbl(fr, j).array
    /\ Tbl(fr, i).header # <<>>
    /\ HeaderKeys(Tbl(fr, i)) = HeaderKeys(Tbl(fr, j))
    /\ SameScope(fr, i, j)

\* an earlier fragment i has a header strictly longer than the header of
\* the array fragment j, and starting with it
LongerBefore(fr, i, j) ==
    /\ i < j
    /\ Tbl(fr, j).array
    /\ ProperPrefixOf(fr, j, i)

\* RedefineAsArray is only reported at an array header whose key an
\* earlier fragment with a strictly longer header opened
RedefineOnlyAfterLonger ==
    (pc = "done" /\ err.kind = "RedefineAsArray") =>
        \E i, j \in Frags : LongerBefore(doc, i, j) /\ IsRedefineAsArray(err, doc, j)

\* C28 as stated: when `[h]` and `[[h]]` with the identical header path
\* occur in one scope, in either order, the error reported is
\* DuplicateTable naming h and never RedefineAsArray; RedefineAsArray is
\* only reported when the fragment that opened the key had a strictly
\* longer header.
C28_MixedAlwaysDuplicateTable ==
    /\ pc = "done" =>
          \A i, j \in Frags :
              Mixed(doc, i, j) =>
                  /\ err.kind = "DuplicateTable"
                  /\ err.name = Join(HeaderKeys(Tbl(doc, j)))
    /\ RedefineOnlyAfterLonger

\* C28 as amended: when `[h]` and `[[h]]` with the identical header path
\* occur in one scope, in either order, the traversal of a consumer that
\* reads every map and sequence to its end fails, and once it has reached
\* the later of the two fragments the error is DuplicateTable naming h at
\* that fragment's header and not RedefineAsArray; before that another
\* error may end it.  RedefineAsArray is only reported at an array header
\* that follows a fragment with a strictly longer header starting with it.
C28_MixedDuplicateTableWhenReached ==
    /\ pc = "done" =>
          \A i, j \in Frags :
              Mixed(doc, i, j) =>
                  /\ err.kind # "none"
                  /\ j \in reached => IsDuplicateTable(err, doc, j)
    /\ RedefineOnlyAfterLonger

\* `[[h]]` first and `[h]` later in its scope, reached and reported
C28_Witness ==
    /\ pc = "done"
    /\ \E i, j \in Frags : /\ Mixed(doc, i, j)
                           /\ Tbl(doc, i).array
                           /\ j \in reached
                           /\ IsDuplicateTable(err, doc, j)

\* `[h]` first and `[[h]]` later in its scope, reached and reported
C28_WitnessPlainFirst ==
    /\ pc = "done"
    /\ \E i, j \in Frags : /\ Mixed(doc, i, j)
                           /\ Tbl(doc, j).array
                           /\ j > i + 1
                           /\ j \in reached
                           /\ IsDuplicateTable(err, doc, j)

\* RedefineAsArray reported with `[h]` and `[[h]]` both in the document:
\* a longer header stood before `[[h]]`
C28_WitnessRedefine ==
    /\ pc = "done"
    /\ err.kind = "RedefineAsArray"
    /\ \E i, j \in Frags : Mixed(doc, i, j) /\ IsRedefineAsArray(err, doc, i)

(***************************************************************************)
(* A `+` token before a Keylike token that carries a sign of its own.      *)
(***************************************************************************)
\* the literal is a `+` followed by a token that starts with `-`
DoubleSigned == num.plus /\ num.s # <<>> /\ Head(num.s) = "-"

\* C29: a numeric value carries at most one sign: a value written as `+`
\* followed by a `-`-signed literal (`+-1`) is rejected with NumberInvalid
\* and never parsed as the negative number.
C29_DoubleSignInvalid ==
    (script = <<>> /\ DoubleSigned) => Rejected

\* `+-1` has been read and was accepted as the integer -1
C29_Witness ==
    /\ num = [s |-> <<"-", "1">>, plus |-> TRUE]
    /\ pc = "done"
    /\ Accepted
    /\ result = MapTree(<<<<"a", IntTree(-1)>>>>)

(***************************************************************************)
(* When the line and column of an error are resolved.  An error that       *)
(* carries a line was resolved when it was made; the map_err of            *)
(* deserialize_any resolves every error that has an offset by then.        *)
(***************************************************************************)
\* the call of next_value_seed on the value of the key given last
ValueCall == deserialize_any(Top.next_value.v.value)

\* the next step of the traversal raises an error in next_key_seed, or in
\* the value handed to the consumer
RaisedByKey ==
    /\ pc = "traverse" /\ ~Top.array /\ ~Top.pending.some
    /\ KeyCall.r = "err"
    /\ KeyCall.e.kind # "panic"

RaisedByValue ==
    /\ pc = "traverse" /\ ~Top.array /\ Top.pending.some /\ Top.next_value.some
    /\ ~ValueCall.ok

\* the error e as it reaches the map_err of deserialize_any, after
\* fix_offset
AtExit(e, ts) ==
    fix_offset(Unwind(e, Below, ts), IF ts = <<>> THEN None ELSE Some(ts[Len(ts)].at))

\* how often to_linecol is evaluated for the raised error e
Resolutions(e, ts) ==
    (IF e.line.some THEN 1 ELSE 0) + (IF AtExit(e, ts).at.some THEN 1 ELSE 0)

\* the errors that Deserializer::error makes during the traversal
MadeByDeserializer(e) == e.kind \in {"DuplicateTable", "RedefineAsArray"}

C30_WitnessFromKind ==
    /\ pc = "done"
    /\ doc # <<>>
    /\ err.kind = "DuplicateKey"
    /\ err.line.some /\ err.line.v >= 1

\* a DuplicateTable error is about to be raised, and is resolved at once
C30_WitnessRaised ==
    /\ RaisedByKey
    /\ KeyCall.e.kind = "DuplicateTable"
    /\ KeyCall.e.line.some
    /\ Resolutions(KeyCall.e, KeyCall.ts) = 2

=============================================================================
